---- MODULE Spec2Model ----
(***************************************************************************)
(* Model of the weather-service core: the caching decorators               *)
(* cache.CachedDataSource and cache.CachedForecastSource, the rate-limiting    *)
(* decorators of package datasource, the fan-out DataCollector and the     *)
(* in-memory WeatherStore.                                                 *)
(*                                                                         *)
(* Each component has its own specification (SpecCache, SpecLimiter,       *)
(* SpecCollector, SpecStore) over its own variables; the variables of the  *)
(* other components stay at their initial values.                          *)
(*                                                                         *)
(* Time is a discrete clock `now`; one unit stands for an arbitrary fixed  *)
(* duration.  Durations of the program (cacheDuration, the limiter's       *)
(* refill period) are counted in these units.                              *)
(***************************************************************************)
EXTENDS Integers, Sequences, FiniteSets, TLC

VARIABLES
    now,             \* wall clock (time.Now())
    \* ---- caching decorator (one instance: CachedDataSource or CachedForecastSource)
    kind,            \* "weather" (CachedDataSource) or "forecast" (CachedForecastSource)
    cacheDuration,   \* c.cacheDuration
    cache,           \* c.cache : map[string]cacheEntry, a function on the present keys
    cacheHitCount,   \* c.cacheHitCount
    cacheMissCount,  \* c.cacheMissCount
    sourceCalls,     \* number of invocations of the wrapped source so far
    cpc,             \* per caller: position inside FetchWeatherData / FetchForecast
    creq,            \* per caller: arguments of the current call
    centry,          \* per caller: local `entry, found` read under RLock
    cres,            \* per caller: value returned by the call
    chist,           \* per caller: history of the current call (classification, ...)
    cstores,         \* history: every (key, Data, Timestamp) ever written to c.cache
    nCalls,          \* number of decorator calls started so far
    cdecided,        \* history: number of calls that took the hit branch / the miss branch
    cmutex,          \* c.mutex: the holder of the write lock and the holders of the read lock
    \* ---- rate-limiting decorator (one RateLimitedProvider instance)
    limBurst,        \* burst given to rate.NewLimiter (shared by both limiters)
    limPeriod,       \* per limiter: clock units per token, i.e. 1 / rate
    lim,             \* per limiter: the token bucket (tokens, last, lastEvent)
    lpc,             \* per caller: position inside GetWeather / FetchForecast
    lcall,           \* per caller: limiter used and reservation of the current call
    lctxDone,        \* per caller: ctx.Done() of the current call is closed
    lres,            \* per caller: value returned by the call
    lhist,           \* per caller: history of the current call
    fwd,             \* per limiter: history of the calls forwarded to the provider
    lCalls,          \* number of rate-limited calls started so far
    lstat,           \* history: limiters called so far, start of the first call
    \* ---- DataCollector (one collector, at most one call of Start)
    dcSources,       \* dc.sources
    dcLocations,     \* dc.locations
    started,         \* Start has been called
    parentDone,      \* the ctx passed to Start is cancelled
    cancelled,       \* cancelCollection() has been called
    wg,              \* counter of the sync.WaitGroup of Start
    tpc,             \* per (source, location) task: position in collectFromSource
    tickPending,     \* per task: a tick is buffered in ticker.C
    outputChan,      \* dc.outputChan: the buffered readings
    errorChan,       \* dc.errorChan: the buffered errors
    outCloses,       \* number of close(dc.outputChan) executed
    errCloses,       \* number of close(dc.errorChan) executed
    closerPc,        \* position of the goroutine that closes the channels
    stopPc,          \* position of the caller of the returned stop function
    stop2Pc,         \* position of a second caller of the same stop function
    panicked,        \* a goroutine panicked (send on or close of a closed channel)
    chanHist,        \* history: ticks, fetches, sends, receives, abandoned sends
    \* ---- WeatherStore (one store)
    data,            \* s.data : map[string][]models.WeatherData, a function on the present keys
    mutex,           \* s.mutex: the set of goroutines holding the write lock
    wpc,             \* per writer: position inside UpdateWeather
    wreq,            \* per writer: the argument `data` of the current call
    wfound,          \* per writer: index found by the provider scan (0: not found)
    updates,         \* history: the readings of the completed updates, in order
    backing,         \* per present location: the array behind s.data[location] and its capacity
    nArrays,         \* number of arrays allocated by append so far
    retired,         \* the arrays append has moved away from, while a reader still holds them
    rlocked,         \* s.mutex: the set of goroutines holding the read lock
    rpc,             \* per reader: position inside the handler and the store method it calls
    rreq,            \* per reader: the method and arguments of the current call
    rslice,          \* per reader: the value GetWeatherByLocation returned (slice header, exists)
    robs,            \* per reader: what the handler has read through the returned value so far
    rdone,           \* history: the last completed read (call, returned value, records read)
    nReads,          \* number of reads started so far
    \* ---- ForecastStore (one store)
    fdata,           \* s.data : map[string]map[string]models.ForecastData
    fmutex,          \* s.mutex: the holder of the write lock and the holders of the read lock
    fpc,             \* per client: position inside the store method it is running
    freq,            \* per client: the method and arguments of the current call
    flocal,          \* per client: locals of PruneOldForecasts (cutoff, prunedCount, locations left)
    fhist,           \* history: the last completed call (arguments, result, map before and after)
    fOps,            \* number of store calls started so far
    \* ---- updateData (the update cycles of main)
    uconfig,         \* config.Locations and the providers main was started with
    ucycle,          \* number of calls of updateData so far
    urunning,        \* a call of updateData has not returned yet
    ures,            \* per goroutine of the cycle: "fetching", or how its fetch ended
    \* ---- main (the goroutines main starts, and its shutdown)
    life             \* positions of main, the updater and the pruning goroutine; history

cacheVars == <<kind, cacheDuration, cache, cacheHitCount, cacheMissCount, sourceCalls,
               cpc, creq, centry, cres, chist, cstores, nCalls, cdecided, cmutex>>

limVars == <<limBurst, limPeriod, lim, lpc, lcall, lctxDone, lres, lhist, fwd, lCalls,
            lstat>>

colVars == <<dcSources, dcLocations, started, parentDone, cancelled, wg, tpc, tickPending,
             outputChan, errorChan, outCloses, errCloses, closerPc, stopPc, stop2Pc, panicked,
             chanHist>>

readVars == <<rlocked, rpc, rreq, rslice, robs, rdone, nReads>>

storeVars == <<data, mutex, wpc, wreq, wfound, updates, backing, nArrays, retired, readVars>>

forecastVars == <<fdata, fmutex, fpc, freq, flocal, fhist, fOps>>

updVars == <<uconfig, ucycle, urunning, ures, life>>

vars == <<now, cacheVars, limVars, colVars, storeVars, forecastVars, updVars>>

(***************************************************************************)
(* Bounds of the model.                                                    *)
(***************************************************************************)
MaxTime == 3        \* the clock runs from 0 to MaxTime
MaxDuration == 2    \* cacheDuration is drawn from 0..MaxDuration
MaxCalls == 2       \* decorator calls started in one behaviour

Callers == {"g1", "g2"}            \* concurrent goroutines calling the decorator
Locations == {"London,UK", "Paris,FR"}
DaysSet == {1, 3}

NoEntry == [found |-> FALSE]
NoResult == [ret |-> "none"]
NoHist == [class |-> "none", checkT |-> -1, invoked |-> 0, call |-> 0, pre |-> {}]

\* The sources and locations a collector can be built with.
AllSources == {"OpenWeatherMap", "WeatherAPI"}
CollectorLocations == {"London,UK"}

\* dc.sources and dc.locations are slices: NewDataCollector accepts any two
\* lists, with or without repeated elements.  DistinctConfigs are the
\* collectors built with a list of distinct sources and at most one location;
\* RepeatingConfigs is a collector with one source and a list that names the
\* location twice.  The tasks of the latter run exactly as the two tasks of a
\* collector with two sources do; it is told apart only where a claim speaks
\* of the (source, location) pairs (SpecCollectorLists).
DistinctConfigs ==
    {[sources |-> srcs, locations |-> locs] :
        srcs \in {<<>>, <<"OpenWeatherMap">>, <<"WeatherAPI">>, <<"OpenWeatherMap", "WeatherAPI">>},
        locs \in {<<>>, <<"London,UK">>}}

RepeatingConfigs ==
    {[sources |-> <<"OpenWeatherMap">>, locations |-> <<"London,UK", "London,UK">>]}

CollectorConfigs == DistinctConfigs \cup RepeatingConfigs

\* A task is identified by the positions <<i, j>> of its source in dc.sources
\* and of its location in dc.locations.
AllTasks == {<<1, 1>>, <<2, 1>>, <<1, 2>>}

NoChanHist == [ticks |-> 0, fetches |-> 0, sentOut |-> 0, sentErr |-> 0,
               received |-> 0, abandoned |-> {}, earlyStop |-> FALSE,
               lastFail |-> [task |-> <<>>, why |-> "none", dropped |-> FALSE]]

\* NewDataCollector(sources, locations): the collector before Start
NewDataCollector(sources, locations) ==
    /\ dcSources = sources
    /\ dcLocations = locations
    /\ started = FALSE
    /\ parentDone = FALSE
    /\ cancelled = FALSE
    /\ wg = 0
    /\ tpc = [t \in AllTasks |-> "none"]
    /\ tickPending = [t \in AllTasks |-> FALSE]
    /\ outputChan = <<>>
    /\ errorChan = <<>>
    /\ outCloses = 0
    /\ errCloses = 0
    /\ closerPc = "none"
    /\ stopPc = "none"
    /\ stop2Pc = "none"
    /\ panicked = FALSE
    /\ chanHist = NoChanHist

\* The collector is not in use: one fixed instance, never started.
IdleColVars == NewDataCollector(<<>>, <<>>)

\* m[key] = e on a Go map: c.cache[location] = cacheEntry{...}, s.data[location] = ...
MapPut(m, key, e) ==
    [k \in DOMAIN m \cup {key} |-> IF k = key THEN e ELSE m[k]]

\* The goroutines of a pool are interchangeable: a call is started by one
\* fixed goroutine among those of the pool that are not inside a call.
Entering(pool, pc) ==
    LET idle == {p \in pool : pc[p] = "idle"}
    IN IF idle = {} THEN {} ELSE {CHOOSE p \in idle : TRUE}

Writers == {"w1", "w2"}            \* concurrent goroutines calling UpdateWeather
Readers == {"r1", "r2"}            \* concurrent handlers reading the WeatherStore

NoSlice == [exists |-> FALSE, location |-> "", array |-> 0, len |-> 0, locations |-> {}]

\* NewWeatherStore(): an empty map
NewWeatherStore ==
    /\ data = <<>>
    /\ mutex = {}
    /\ wpc = [w \in Writers |-> "idle"]
    /\ wreq = [w \in Writers |-> [Provider |-> "", Location |-> "", val |-> 0]]
    /\ wfound = [w \in Writers |-> 0]
    /\ updates = <<>>
    /\ backing = <<>>
    /\ nArrays = 0
    /\ retired = <<>>
    /\ rlocked = {}
    /\ rpc = [r \in Readers |-> "idle"]
    /\ rreq = [r \in Readers |-> [op |-> "none"]]
    /\ rslice = [r \in Readers |-> NoSlice]
    /\ robs = [r \in Readers |-> <<>>]
    /\ rdone = [req |-> [op |-> "none"], exists |-> FALSE, locations |-> {}, obs |-> <<>>]
    /\ nReads = 0

FClients == {"c1", "c2"}           \* concurrent goroutines calling the ForecastStore

NoForecastCall == [op |-> "none"]
NoPruneLocals == [cutoff |-> 0, prunedCount |-> 0, todo |-> {}, pre |-> <<>>, at |-> 0]
NoForecastHist == [req |-> NoForecastCall, res |-> NoResult, pre |-> <<>>, post |-> <<>>, at |-> 0,
                   last |-> <<>>]

\* updateData has not been called; main has no location and no provider.
NoUpdateConfig == [locations |-> <<>>, providers |-> <<>>]

\* main has not started: no goroutine of main exists.
NoLife == [main |-> "none", updater |-> "none", pruner |-> "none", tickerAt |-> 0,
           signalAt |-> 0, prunes |-> 0]

IdleUpdVars ==
    /\ uconfig = NoUpdateConfig
    /\ ucycle = 0
    /\ urunning = FALSE
    /\ ures = [g \in Writers \cup FClients |-> "none"]
    /\ life = NoLife

\* NewForecastStore(): an empty map
NewForecastStore ==
    /\ fdata = <<>>
    /\ fmutex = [writer |-> {}, readers |-> {}]
    /\ fpc = [c \in FClients |-> "idle"]
    /\ freq = [c \in FClients |-> NoForecastCall]
    /\ flocal = [c \in FClients |-> NoPruneLocals]
    /\ fhist = NoForecastHist
    /\ fOps = 0

\* The caching decorator is not in use: one fixed instance, never called.
IdleCacheVars ==
    /\ kind = "weather"
    /\ cacheDuration = 0
    /\ cache = <<>>
    /\ cacheHitCount = 0
    /\ cacheMissCount = 0
    /\ sourceCalls = 0
    /\ cpc = [p \in Callers |-> "idle"]
    /\ creq = [p \in Callers |-> [kind |-> "none"]]
    /\ centry = [p \in Callers |-> NoEntry]
    /\ cres = [p \in Callers |-> NoResult]
    /\ chist = [p \in Callers |-> NoHist]
    /\ cstores = {}
    /\ nCalls = 0
    /\ cdecided = [hit |-> 0, miss |-> 0]
    /\ cmutex = [writer |-> {}, readers |-> {}]

(***************************************************************************)
(* Rate-limiting decorator                                                 *)
(*                                                                         *)
(* RateLimitedProvider owns two rate.Limiter buckets (weatherLimiter,      *)
(* forecastLimiter); RateLimitedWeatherProvider and                        *)
(* RateLimitedForecastSource are the same code with one bucket.            *)
(*                                                                         *)
(* rate.Limiter (golang.org/x/time/rate) is a token bucket.  A rate of r   *)
(* tokens per second is modelled as one token every limPeriod clock units; *)
(* the bucket is kept in units of 1/limPeriod token, so that one clock     *)
(* unit refills one bucket unit and a whole token is limPeriod units.      *)
(* A goroutine blocked in Wait is woken by its timer or by ctx.Done()      *)
(* without scheduling latency: the clock does not advance past an event a  *)
(* waiting goroutine has to react to (LimTick).                            *)
(***************************************************************************)
MaxLimCalls == 2    \* rate-limited calls started in one behaviour
MaxLimTime == 2     \* the clock of the rate-limited calls runs from 0 to MaxLimTime

Periods == {1, 2}   \* configured rates: one token every 1 or 2 clock units
\* (weatherRPS, forecastRPS) as periods: equal rates, as main configures them,
\* and one pair of different rates
PeriodPairs ==
    {[l \in {"weatherLimiter", "forecastLimiter"} |-> q] : q \in Periods}
        \cup {[weatherLimiter |-> 1, forecastLimiter |-> 2]}
Bursts == {0, 1, 2} \* configured burst sizes

Limiters == {"weatherLimiter", "forecastLimiter"}

NoCall == [limiter |-> "none"]
NoLimHist == [forwarded |-> 0, cancelledWaiting |-> FALSE, sent |-> <<>>, upstream |-> NoResult]
NoLimStat == [used |-> {}, first |-> -1]

\* The arguments of a call after ctx: <<location>> for GetWeather and
\* <<location, days>> for FetchForecast.
WeatherArgs == {<<location>> : location \in Locations}
ForecastArgs == {<<"London,UK", 1>>, <<"Paris,FR", 3>>}

Min(a, b) == IF a < b THEN a ELSE b

\* rate.NewLimiter(rate.Limit(rps), burst): the bucket starts full
NewLimiter(burst, period) ==
    [tokens |-> burst * period, last |-> 0, lastEvent |-> 0]

\* Limiter.advance(t): the tokens available at time t
Advance(l, t) ==
    LET last == IF t < lim[l].last THEN t ELSE lim[l].last
    IN Min(limBurst * limPeriod[l], lim[l].tokens + (t - last))

\* Limiter.reserveN(t, 1, InfDuration): the reservation and the new bucket
ReserveN(l, t) ==
    LET tokens == Advance(l, t) - limPeriod[l]
        waitDuration == IF tokens < 0 THEN -tokens ELSE 0
    IN [timeToAct |-> t + waitDuration,
        lim |-> [tokens |-> tokens, last |-> t, lastEvent |-> t + waitDuration]]

\* Reservation.CancelAt(t): the bucket after the reservation is given back
CancelAt(l, timeToAct, t) ==
    LET restoreTokens == limPeriod[l] - (lim[l].lastEvent - timeToAct)
        tokens == Min(limBurst * limPeriod[l], Advance(l, t) + restoreTokens)
        prevEvent == timeToAct - limPeriod[l]
    IN IF timeToAct < t \/ restoreTokens <= 0
       THEN lim[l]
       ELSE [tokens |-> tokens, last |-> t,
             lastEvent |-> IF timeToAct = lim[l].lastEvent /\ ~(prevEvent < t)
                           THEN prevEvent ELSE lim[l].lastEvent]

\* fmt.Errorf("rate limit wait canceled: %w", err)
WaitCanceledError(err) == [ret |-> "err", msg |-> "rate limit wait canceled", wraps |-> err]

\* NewRateLimitedProvider(provider, weatherRPS, forecastRPS, burst)
InitLimVars ==
    /\ limBurst \in Bursts
    /\ limPeriod \in PeriodPairs
    /\ lim = [l \in Limiters |-> NewLimiter(limBurst, limPeriod[l])]
    /\ lpc = [p \in Callers |-> "idle"]
    /\ lcall = [p \in Callers |-> NoCall]
    /\ lctxDone = [p \in Callers |-> FALSE]
    /\ lres = [p \in Callers |-> NoResult]
    /\ lhist = [p \in Callers |-> NoLimHist]
    /\ fwd = [l \in Limiters |-> <<>>]
    /\ lCalls = 0
    /\ lstat = NoLimStat

\* The decorator is not in use: one fixed instance, never called.
IdleLimVars ==
    /\ limBurst = 1
    /\ limPeriod = [l \in Limiters |-> 1]
    /\ lim = [l \in Limiters |-> NewLimiter(1, 1)]
    /\ lpc = [p \in Callers |-> "idle"]
    /\ lcall = [p \in Callers |-> NoCall]
    /\ lctxDone = [p \in Callers |-> FALSE]
    /\ lres = [p \in Callers |-> NoResult]
    /\ lhist = [p \in Callers |-> NoLimHist]
    /\ fwd = [l \in Limiters |-> <<>>]
    /\ lCalls = 0
    /\ lstat = NoLimStat

\* The other components are not touched by the rate-limiting decorator.
LimFrame == UNCHANGED <<cacheVars, colVars, storeVars, forecastVars, updVars>>

\* The call is handed to the wrapped provider: r.provider.GetWeather(ctx, location)
Forward(p, l, waited) ==
    /\ fwd' = [fwd EXCEPT ![l] = Append(@, [t |-> now, waited |-> waited])]
    /\ lhist' = [lhist EXCEPT ![p].forwarded = @ + 1, ![p].sent = lcall[p].args]
    /\ lpc' = [lpc EXCEPT ![p] = "upstream"]

\* The call is counted: the limiter it goes through and, for the first call,
\* the instant at which it starts.
CallStarts(l) ==
    /\ lCalls' = lCalls + 1
    /\ lstat' = [used |-> lstat.used \cup {l},
                 first |-> IF lstat.first < 0 THEN now ELSE lstat.first]

\* Variant of LimitedCall that hands the call to the provider without waiting
\* for the limiter.
LimitedCallNoWait(p, l, args) ==
    /\ lpc[p] \in {"idle", "done"}
    /\ lCalls < MaxLimCalls
    /\ CallStarts(l)
    /\ lctxDone' = [lctxDone EXCEPT ![p] = FALSE]
    /\ lcall' = [lcall EXCEPT ![p] = [limiter |-> l, timeToAct |-> now, args |-> args]]
    /\ lres' = [lres EXCEPT ![p] = NoResult]
    /\ fwd' = [fwd EXCEPT ![l] = Append(@, [t |-> now, waited |-> FALSE])]
    /\ lhist' = [lhist EXCEPT ![p] = [NoLimHist EXCEPT !.forwarded = 1, !.sent = args]]
    /\ lpc' = [lpc EXCEPT ![p] = "upstream"]
    /\ UNCHANGED <<now, limBurst, limPeriod, lim>>
    /\ LimFrame

\* if err := limiter.Wait(ctx); err != nil { return ..., fmt.Errorf(...) }
\* up to the point where Wait returns or blocks on its timer: the burst check,
\* the check of ctx.Done(), the reservation, and the immediate return when the
\* delay is zero, followed by the call of the wrapped provider with the
\* arguments of the call.
LimitedCall(p, l, args) ==
    /\ lpc[p] \in {"idle", "done"}
    /\ lCalls < MaxLimCalls
    /\ CallStarts(l)
    /\ \E ctxDone \in BOOLEAN :
         /\ lctxDone' = [lctxDone EXCEPT ![p] = ctxDone]
         /\ IF 1 > limBurst
            THEN /\ lres' = [lres EXCEPT ![p] = WaitCanceledError("exceeds limiter's burst")]
                 /\ lcall' = [lcall EXCEPT ![p] =
                                 [limiter |-> l, timeToAct |-> now, args |-> args]]
                 /\ lhist' = [lhist EXCEPT ![p] = NoLimHist]
                 /\ lpc' = [lpc EXCEPT ![p] = "done"]
                 /\ UNCHANGED <<lim, fwd>>
            ELSE IF ctxDone
            THEN /\ lres' = [lres EXCEPT ![p] = WaitCanceledError("context canceled")]
                 /\ lcall' = [lcall EXCEPT ![p] =
                                 [limiter |-> l, timeToAct |-> now, args |-> args]]
                 /\ lhist' = [lhist EXCEPT ![p] = NoLimHist]
                 /\ lpc' = [lpc EXCEPT ![p] = "done"]
                 /\ UNCHANGED <<lim, fwd>>
            ELSE LET r == ReserveN(l, now)
                 IN /\ lim' = [lim EXCEPT ![l] = r.lim]
                    /\ lcall' = [lcall EXCEPT ![p] =
                                    [limiter |-> l, timeToAct |-> r.timeToAct, args |-> args]]
                    /\ lres' = [lres EXCEPT ![p] = NoResult]
                    /\ IF r.timeToAct = now
                       THEN /\ fwd' = [fwd EXCEPT ![l] = Append(@, [t |-> now, waited |-> FALSE])]
                            /\ lhist' = [lhist EXCEPT ![p] =
                                            [NoLimHist EXCEPT !.forwarded = 1, !.sent = args]]
                            /\ lpc' = [lpc EXCEPT ![p] = "upstream"]
                       ELSE /\ lhist' = [lhist EXCEPT ![p] = NoLimHist]
                            /\ lpc' = [lpc EXCEPT ![p] = "waiting"]
                            /\ UNCHANGED fwd
    /\ UNCHANGED <<now, limBurst, limPeriod>>
    /\ LimFrame

\* RateLimitedProvider.GetWeather (and RateLimitedWeatherProvider.GetWeather)
GetWeather(p, location) == LimitedCall(p, "weatherLimiter", <<location>>)

\* Variant of LimitedFetchForecast that waits on the limiter of GetWeather.
LimitedFetchForecastSharedLimiter(p, location, days) ==
    LimitedCall(p, "weatherLimiter", <<location, days>>)

\* RateLimitedProvider.FetchForecast (and RateLimitedForecastSource.FetchForecast)
LimitedFetchForecast(p, location, days) ==
    LimitedCall(p, "forecastLimiter", <<location, days>>)

\* Variant of WaitTimerFires whose timer fires before the reservation is due.
WaitTimerFiresEarly(p) ==
    /\ lpc[p] = "waiting"
    /\ Forward(p, lcall[p].limiter, TRUE)
    /\ UNCHANGED <<now, limBurst, limPeriod, lim, lcall, lctxDone, lres, lCalls, lstat>>
    /\ LimFrame

\* Wait: the timer of the reservation fires (case <-ch: return nil), and the
\* call is forwarded to the wrapped provider.
WaitTimerFires(p) ==
    /\ lpc[p] = "waiting"
    /\ now >= lcall[p].timeToAct
    /\ Forward(p, lcall[p].limiter, TRUE)
    /\ UNCHANGED <<now, limBurst, limPeriod, lim, lcall, lctxDone, lres, lCalls, lstat>>
    /\ LimFrame

\* Variant of WaitCtxDone that logs the cancellation and still calls the provider.
WaitCtxDoneForwards(p) ==
    /\ lpc[p] = "waiting"
    /\ lctxDone[p]
    /\ Forward(p, lcall[p].limiter, TRUE)
    /\ UNCHANGED <<now, limBurst, limPeriod, lim, lcall, lctxDone, lres, lCalls, lstat>>
    /\ LimFrame

\* Wait: case <-ctx.Done(): r.Cancel(); return ctx.Err(), and the decorator
\* returns fmt.Errorf("rate limit wait canceled: %w", err) without calling
\* the wrapped provider.
WaitCtxDone(p) ==
    /\ lpc[p] = "waiting"
    /\ lctxDone[p]
    /\ lim' = [lim EXCEPT ![lcall[p].limiter] =
                  CancelAt(lcall[p].limiter, lcall[p].timeToAct, now)]
    /\ lres' = [lres EXCEPT ![p] = WaitCanceledError("context canceled")]
    /\ lpc' = [lpc EXCEPT ![p] = "done"]
    /\ UNCHANGED <<now, limBurst, limPeriod, lcall, lctxDone, lhist, fwd, lCalls, lstat>>
    /\ LimFrame

\* The caller's cancellation signal fires during the call.
CancelCtx(p) ==
    /\ lpc[p] \in {"waiting", "upstream"}
    /\ ~lctxDone[p]
    /\ lctxDone' = [lctxDone EXCEPT ![p] = TRUE]
    /\ lhist' = [lhist EXCEPT ![p].cancelledWaiting =
                    (lpc[p] = "waiting" /\ now < lcall[p].timeToAct)]
    /\ UNCHANGED <<now, limBurst, limPeriod, lim, lpc, lcall, lres, fwd, lCalls, lstat>>
    /\ LimFrame

\* What the wrapped provider returns for the arguments it was called with: a
\* value for that location (and day count), or its own error.
ProviderResults(args) ==
    {[ret |-> out, from |-> "provider", args |-> args] : out \in {"ok", "err"}}

\* Variant of ProviderReturns that wraps the provider's error, as the
\* decorator does with the error of limiter.Wait.
ProviderReturnsWrapsError(p) ==
    /\ lpc[p] = "upstream"
    /\ \E result \in ProviderResults(lhist[p].sent) :
         /\ lhist' = [lhist EXCEPT ![p].upstream = result]
         /\ lres' = [lres EXCEPT ![p] =
                        IF result.ret = "err" THEN WaitCanceledError("provider") ELSE result]
    /\ lpc' = [lpc EXCEPT ![p] = "done"]
    /\ UNCHANGED <<now, limBurst, limPeriod, lim, lcall, lctxDone, fwd, lCalls, lstat>>
    /\ LimFrame

\* return r.provider.GetWeather(ctx, location): the provider's result, value or
\* error, is the decorator's result.
ProviderReturns(p) ==
    /\ lpc[p] = "upstream"
    /\ \E result \in ProviderResults(lhist[p].sent) :
         /\ lhist' = [lhist EXCEPT ![p].upstream = result]
         /\ lres' = [lres EXCEPT ![p] = result]
    /\ lpc' = [lpc EXCEPT ![p] = "done"]
    /\ UNCHANGED <<now, limBurst, limPeriod, lim, lcall, lctxDone, fwd, lCalls, lstat>>
    /\ LimFrame

\* The clock advances, unless a goroutine blocked in Wait has an event to
\* react to (its timer is due or its ctx is done).
LimTick ==
    /\ now < MaxLimTime
    /\ \A p \in Callers :
         lpc[p] = "waiting" => (now < lcall[p].timeToAct /\ ~lctxDone[p])
    /\ now' = now + 1
    /\ UNCHANGED limVars
    /\ LimFrame

InitLimiter ==
    /\ now = 0
    /\ InitLimVars
    /\ IdleCacheVars
    /\ IdleColVars
    /\ NewWeatherStore
    /\ NewForecastStore
    /\ IdleUpdVars

NextLimiter ==
    \/ \E p \in Callers : \E args \in WeatherArgs : GetWeather(p, args[1])
    \/ \E p \in Callers : \E args \in ForecastArgs : LimitedFetchForecast(p, args[1], args[2])
    \/ \E p \in Callers : WaitTimerFires(p)
    \/ \E p \in Callers : WaitCtxDone(p)
    \/ \E p \in Callers : CancelCtx(p)
    \/ \E p \in Callers : ProviderReturns(p)
    \/ LimTick

SpecLimiter == InitLimiter /\ [][NextLimiter]_vars

(***************************************************************************)
(* Claims about the rate-limiting decorator (checked under SpecLimiter).   *)
(* fwd[l] lists, in order, the instants at which calls admitted by limiter *)
(* l were handed to the wrapped provider, and whether the call had to wait.*)
(***************************************************************************)

\* C3: for every limiter, with any interleaving of the callers, the calls
\* forwarded to the wrapped provider in any time interval of length T number
\* at most burst + rate * T (rate = 1 / limPeriod), and at any one instant at
\* most burst calls are forwarded without having waited.
C3_RateBound ==
    \A l \in Limiters :
        /\ \A i \in 1..Len(fwd[l]) : \A j \in i..Len(fwd[l]) :
              limPeriod[l] * (j - i + 1) <=
                  limPeriod[l] * limBurst + (fwd[l][j].t - fwd[l][i].t)
        /\ \A i \in 1..Len(fwd[l]) :
              Cardinality({j \in 1..Len(fwd[l]) :
                              fwd[l][j].t = fwd[l][i].t /\ ~fwd[l][j].waited}) <= limBurst

\* C3 witness: more calls than the burst went through one limiter, the last
\* one after waiting, exactly as early as the bound allows.
C3_Witness ==
    \E l \in Limiters :
        /\ limBurst >= 1
        /\ Len(fwd[l]) > limBurst
        /\ fwd[l][Len(fwd[l])].waited
        /\ limPeriod[l] * Len(fwd[l]) =
              limPeriod[l] * limBurst + (fwd[l][Len(fwd[l])].t - fwd[l][1].t)

\* C4: a call whose cancellation signal fires while it is waiting for a token
\* (before its reservation is due) is never forwarded to the wrapped provider
\* and returns the error "rate limit wait canceled" wrapping the context error.
C4_CancelWhileWaiting ==
    \A p \in Callers :
        lhist[p].cancelledWaiting =>
            /\ lpc[p] \in {"waiting", "done"}
            /\ lhist[p].forwarded = 0
            /\ lpc[p] = "done" => lres[p] = WaitCanceledError("context canceled")

\* C4 witness: a call cancelled during its wait has returned the error.
C4_Witness ==
    \E p \in Callers :
        /\ lhist[p].cancelledWaiting
        /\ lpc[p] = "done"
        /\ lres[p] = WaitCanceledError("context canceled")
        /\ lhist[p].forwarded = 0

\* No rate-limited call is in progress.
LimQuiescent == \A p \in Callers : lpc[p] \in {"idle", "done"}

C20_ForwardedOnceUnchanged ==
    \A p \in Callers :
        /\ lhist[p].forwarded <= 1
        /\ lpc[p] = "upstream" =>
              /\ lhist[p].forwarded = 1
              /\ lhist[p].sent = lcall[p].args
        /\ (lpc[p] = "done" /\ lhist[p].forwarded = 1) =>
              /\ lhist[p].sent = lcall[p].args
              /\ lhist[p].upstream \in ProviderResults(lcall[p].args)
              /\ lres[p] = lhist[p].upstream
        /\ (lpc[p] = "done" /\ lhist[p].forwarded = 0) =>
              /\ lhist[p].upstream = NoResult
              /\ \E err \in {"context canceled", "exceeds limiter's burst"} :
                    lres[p] = WaitCanceledError(err)

\* C20 witness: a forecast call that had to wait for its token returned the
\* provider's error, and a weather call returned the provider's value.
C20_Witness ==
    \E p, q \in Callers :
        /\ lpc[p] = "done" /\ lpc[q] = "done"
        /\ lhist[p].forwarded = 1 /\ lhist[q].forwarded = 1
        /\ lcall[p].args \in ForecastArgs
        /\ lcall[p].timeToAct > lstat.first
        /\ lres[p] = [ret |-> "err", from |-> "provider", args |-> lcall[p].args]
        /\ lcall[q].args \in WeatherArgs
        /\ lres[q] = [ret |-> "ok", from |-> "provider", args |-> lcall[q].args]

\* The limiter a call with the arguments args has to go through: GetWeather
\* takes a location, FetchForecast a location and a day count.
LimiterFor(args) == IF Len(args) = 1 THEN "weatherLimiter" ELSE "forecastLimiter"

\* The next call through limiter l would have to wait: the bucket is exhausted.
Exhausted(l) == Advance(l, now) < limPeriod[l]

\* C39: the two buckets of RateLimitedProvider are independent.  A call goes
\* through the limiter of its kind and no other; a step changes at most one
\* bucket, and the bucket of l only in a step of a call of l's kind; a call
\* that begins to wait does so because the bucket of its own kind is
\* exhausted, and one that finds that bucket untouched and the burst at least
\* one is forwarded at once, whatever the state of the other bucket.
C39_BucketsIndependent ==
    /\ [](\A p \in Callers :
             lcall[p] # NoCall => lcall[p].limiter = LimiterFor(lcall[p].args))
    /\ [][/\ \A l \in Limiters :
               lim'[l] # lim[l] =>
                  /\ \A k \in Limiters \ {l} : lim'[k] = lim[k]
                  /\ \E p \in Callers : /\ lpc'[p] # lpc[p]
                                        /\ lcall'[p].limiter = l
                                        /\ LimiterFor(lcall'[p].args) = l
          /\ \A p \in Callers :
               (lpc'[p] = "waiting" /\ lpc[p] # "waiting") =>
                  /\ Exhausted(lcall'[p].limiter)
                  /\ lim[lcall'[p].limiter] #
                        NewLimiter(limBurst, limPeriod[lcall'[p].limiter])]_vars

\* C39 witness: a FetchForecast call has used up the forecast bucket, so that
\* the next FetchForecast would have to wait, and a GetWeather call that
\* started at the same instant or later was forwarded without waiting.
C39_Witness ==
    \E p, q \in Callers :
        /\ limBurst = 1
        /\ lcall[p] # NoCall /\ lcall[q] # NoCall
        /\ lcall[p].limiter = "forecastLimiter"
        /\ lcall[q].limiter = "weatherLimiter"
        /\ lhist[p].forwarded = 1
        /\ Exhausted("forecastLimiter")
        /\ lpc[q] = "upstream"
        /\ Len(fwd["weatherLimiter"]) = 1
        /\ ~fwd["weatherLimiter"][1].waited
        /\ fwd["weatherLimiter"][1].t >= fwd["forecastLimiter"][1].t

(***************************************************************************)
(* DataCollector                                                           *)
(*                                                                         *)
(* One goroutine per (source, location) pair runs collectFromSource; one   *)
(* more goroutine waits for the WaitGroup and closes both channels; the    *)
(* caller of Start may call the returned stop function and may cancel the  *)
(* ctx it passed to Start; a consumer may receive from the channels.       *)
(* Positions of a task: "spawned" (go statement executed, fetch not yet    *)
(* begun), "fetching" (inside source.FetchWeatherData), "sending" (in the  *)
(* select that sends on outputChan), "waiting" (in the select on ticker.C  *)
(* and ctx.Done()), "exited".                                              *)
(***************************************************************************)
OutCap == 1         \* capacity of outputChan in the model (100 in the program)
ErrCap == 1         \* capacity of errorChan in the model (100 in the program)
MaxTicks == 1       \* ticks delivered by all tickers in one behaviour

\* for _, source := range dc.sources { for _, location := range dc.locations {
\* the iterations of the two loops of Start
Tasks == (1..Len(dcSources)) \X (1..Len(dcLocations))

\* The (source, location) pair task t collects.
PairOf(t) == <<dcSources[t[1]], dcLocations[t[2]]>>

\* The (source, location) pairs the collector was built for.
Pairs == {PairOf(t) : t \in Tasks}

\* collectionCtx, cancelCollection := context.WithCancel(ctx): Done() of the
\* derived context is closed by cancelCollection() or by the parent
CtxDoneIgnoresParent == cancelled

CtxDone == cancelled \/ parentDone

AllExited == \A t \in Tasks : tpc[t] = "exited"

ColFrame == UNCHANGED <<now, cacheVars, limVars, storeVars, forecastVars, updVars>>

\* DataCollector.Start: wg.Add(1) and go collectFromSource for every pair,
\* go func() { wg.Wait(); close(...) }(), and the stop function is returned
Start ==
    /\ ~started
    /\ started' = TRUE
    /\ wg' = Cardinality(Tasks)
    /\ tpc' = [t \in AllTasks |-> IF t \in Tasks THEN "spawned" ELSE "none"]
    /\ closerPc' = "wait"
    /\ stopPc' = "idle"
    /\ stop2Pc' = "idle"
    /\ UNCHANGED <<dcSources, dcLocations, parentDone, cancelled, tickPending, outputChan,
                   errorChan, outCloses, errCloses, panicked, chanHist>>
    /\ ColFrame

\* fetchOnce: data, err := source.FetchWeatherData(fetchCtx, location) is called
FetchOnce(t) ==
    /\ tpc' = [tpc EXCEPT ![t] = "fetching"]
    /\ chanHist' = [chanHist EXCEPT !.fetches = @ + 1]

\* Variant of InitialFetch in which the task goes to the select on ticker.C
\* first and fetches only when the first tick arrives.
InitialFetchWaitsForTick(t) ==
    /\ tpc[t] = "spawned"
    /\ tpc' = [tpc EXCEPT ![t] = "waiting"]
    /\ UNCHANGED <<dcSources, dcLocations, started, parentDone, cancelled, wg, tickPending,
                   outputChan, errorChan, outCloses, errCloses, closerPc, stopPc, stop2Pc, panicked,
                   chanHist>>
    /\ ColFrame

\* collectFromSource: dc.fetchOnce(ctx, source, location), the initial fetch
InitialFetch(t) ==
    /\ tpc[t] = "spawned"
    /\ FetchOnce(t)
    /\ UNCHANGED <<dcSources, dcLocations, started, parentDone, cancelled, wg, tickPending,
                   outputChan, errorChan, outCloses, errCloses, closerPc, stopPc, stop2Pc, panicked>>
    /\ ColFrame

\* the ticker of a running task delivers a tick (ticker.C holds at most one)
TickerTick(t) ==
    /\ tpc[t] \in {"fetching", "sending", "waiting"}
    /\ chanHist.ticks < MaxTicks
    /\ tickPending' = [tickPending EXCEPT ![t] = TRUE]
    /\ chanHist' = [chanHist EXCEPT !.ticks = @ + 1]
    /\ UNCHANGED <<dcSources, dcLocations, started, parentDone, cancelled, wg, tpc,
                   outputChan, errorChan, outCloses, errCloses, closerPc, stopPc, stop2Pc, panicked>>
    /\ ColFrame

\* collectFromSource: case <-ticker.C: dc.fetchOnce(ctx, source, location)
TickerFetch(t) ==
    /\ tpc[t] = "waiting"
    /\ tickPending[t]
    /\ tickPending' = [tickPending EXCEPT ![t] = FALSE]
    /\ FetchOnce(t)
    /\ UNCHANGED <<dcSources, dcLocations, started, parentDone, cancelled, wg,
                   outputChan, errorChan, outCloses, errCloses, closerPc, stopPc, stop2Pc, panicked>>
    /\ ColFrame

\* History record of the most recent failed fetch.
Failure(t, why, dropped) == [task |-> t, why |-> why, dropped |-> dropped]

\* The part of a failed fetch that is common to the variants below.
FetchFailsFrame ==
    UNCHANGED <<dcSources, dcLocations, started, parentDone, wg, tickPending,
                outputChan, outCloses, errCloses, closerPc, stopPc, stop2Pc>>

\* Variant of FetchFails with a plain send, dc.errorChan <- err: the task
\* stays in the send while the channel is full.
FetchFailsBlockingSend(t) ==
    /\ tpc[t] = "fetching"
    /\ \E why \in {"error", "timeout"} :
         IF Len(errorChan) < ErrCap
         THEN /\ errorChan' = Append(errorChan, [task |-> t, why |-> why])
              /\ chanHist' = [chanHist EXCEPT !.sentErr = @ + 1,
                                              !.lastFail = Failure(t, why, FALSE)]
              /\ tpc' = [tpc EXCEPT ![t] = "waiting"]
         ELSE /\ chanHist' = [chanHist EXCEPT !.lastFail = Failure(t, why, FALSE)]
              /\ tpc' = [tpc EXCEPT ![t] = "blocked"]
              /\ UNCHANGED errorChan
    /\ UNCHANGED <<panicked, cancelled>>
    /\ FetchFailsFrame
    /\ ColFrame

\* Variant of FetchFails in which collectFromSource returns after a failed fetch.
FetchFailsEndsTask(t) ==
    /\ tpc[t] = "fetching"
    /\ \E why \in {"error", "timeout"} :
         IF Len(errorChan) < ErrCap
         THEN /\ errorChan' = Append(errorChan, [task |-> t, why |-> why])
              /\ chanHist' = [chanHist EXCEPT !.sentErr = @ + 1,
                                              !.lastFail = Failure(t, why, FALSE)]
         ELSE /\ chanHist' = [chanHist EXCEPT !.lastFail = Failure(t, why, TRUE)]
              /\ UNCHANGED errorChan
    /\ tpc' = [tpc EXCEPT ![t] = "stopped"]
    /\ UNCHANGED <<panicked, cancelled>>
    /\ FetchFailsFrame
    /\ ColFrame

\* Variant of FetchFails in which a failed fetch cancels the whole collection.
FetchFailsCancelsAll(t) ==
    /\ tpc[t] = "fetching"
    /\ \E why \in {"error", "timeout"} :
         IF Len(errorChan) < ErrCap
         THEN /\ errorChan' = Append(errorChan, [task |-> t, why |-> why])
              /\ chanHist' = [chanHist EXCEPT !.sentErr = @ + 1,
                                              !.lastFail = Failure(t, why, FALSE)]
         ELSE /\ chanHist' = [chanHist EXCEPT !.lastFail = Failure(t, why, TRUE)]
              /\ UNCHANGED errorChan
    /\ tpc' = [tpc EXCEPT ![t] = "waiting"]
    /\ cancelled' = TRUE
    /\ UNCHANGED panicked
    /\ FetchFailsFrame
    /\ ColFrame

\* fetchOnce: the fetch fails (an error of the source, or the deadline of
\* fetchCtx): select { case dc.errorChan <- err: default: }; return
FetchFails(t) ==
    /\ tpc[t] = "fetching"
    /\ \E why \in {"error", "timeout"} :
         IF errCloses > 0
         THEN /\ panicked' = TRUE
              /\ chanHist' = [chanHist EXCEPT !.lastFail = Failure(t, why, FALSE)]
              /\ UNCHANGED errorChan
         ELSE IF Len(errorChan) < ErrCap
         THEN /\ errorChan' = Append(errorChan, [task |-> t, why |-> why])
              /\ chanHist' = [chanHist EXCEPT !.sentErr = @ + 1,
                                              !.lastFail = Failure(t, why, FALSE)]
              /\ UNCHANGED panicked
         ELSE /\ chanHist' = [chanHist EXCEPT !.lastFail = Failure(t, why, TRUE)]
              /\ UNCHANGED <<errorChan, panicked>>
    /\ tpc' = [tpc EXCEPT ![t] = "waiting"]
    /\ UNCHANGED cancelled
    /\ FetchFailsFrame
    /\ ColFrame

\* fetchOnce: the fetch returns data; the task reaches the sending select
FetchSucceeds(t) ==
    /\ tpc[t] = "fetching"
    /\ tpc' = [tpc EXCEPT ![t] = "sending"]
    /\ UNCHANGED <<dcSources, dcLocations, started, parentDone, cancelled, wg, tickPending,
                   outputChan, errorChan, outCloses, errCloses, closerPc, stopPc, stop2Pc, panicked,
                   chanHist>>
    /\ ColFrame

\* Variant of SendOutput with a non-blocking send: the reading is discarded
\* when outputChan is full.
SendOutputOrDrop(t) ==
    /\ tpc[t] = "sending"
    /\ IF Len(outputChan) < OutCap
       THEN /\ outputChan' = Append(outputChan, t)
            /\ chanHist' = [chanHist EXCEPT !.sentOut = @ + 1]
       ELSE UNCHANGED <<outputChan, chanHist>>
    /\ tpc' = [tpc EXCEPT ![t] = "waiting"]
    /\ UNCHANGED <<dcSources, dcLocations, started, parentDone, cancelled, wg, tickPending,
                   errorChan, outCloses, errCloses, closerPc, stopPc, stop2Pc, panicked>>
    /\ ColFrame

\* fetchOnce: case dc.outputChan <- data:
SendOutput(t) ==
    /\ tpc[t] = "sending"
    /\ IF outCloses > 0
       THEN /\ panicked' = TRUE
            /\ UNCHANGED <<outputChan, chanHist>>
       ELSE /\ Len(outputChan) < OutCap
            /\ outputChan' = Append(outputChan, t)
            /\ chanHist' = [chanHist EXCEPT !.sentOut = @ + 1]
            /\ UNCHANGED panicked
    /\ tpc' = [tpc EXCEPT ![t] = "waiting"]
    /\ UNCHANGED <<dcSources, dcLocations, started, parentDone, cancelled, wg, tickPending,
                   errorChan, outCloses, errCloses, closerPc, stopPc, stop2Pc>>
    /\ ColFrame

\* fetchOnce: case <-ctx.Done(): return
SendAbandon(t) ==
    /\ tpc[t] = "sending"
    /\ CtxDone
    /\ tpc' = [tpc EXCEPT ![t] = "waiting"]
    /\ chanHist' = [chanHist EXCEPT !.abandoned = @ \cup {t}]
    /\ UNCHANGED <<dcSources, dcLocations, started, parentDone, cancelled, wg, tickPending,
                   outputChan, errorChan, outCloses, errCloses, closerPc, stopPc, stop2Pc, panicked>>
    /\ ColFrame

\* Variant of TaskExit that returns without wg.Done().
TaskExitNoDone(t) ==
    /\ tpc[t] = "waiting"
    /\ CtxDone
    /\ tpc' = [tpc EXCEPT ![t] = "exited"]
    /\ UNCHANGED <<dcSources, dcLocations, started, parentDone, cancelled, wg, tickPending,
                   outputChan, errorChan, outCloses, errCloses, closerPc, stopPc, stop2Pc, panicked,
                   chanHist>>
    /\ ColFrame

\* collectFromSource: case <-ctx.Done(): return, with the deferred
\* ticker.Stop() and wg.Done()
TaskExit(t) ==
    /\ tpc[t] = "waiting"
    /\ CtxDone
    /\ tpc' = [tpc EXCEPT ![t] = "exited"]
    /\ wg' = wg - 1
    /\ UNCHANGED <<dcSources, dcLocations, started, parentDone, cancelled, tickPending,
                   outputChan, errorChan, outCloses, errCloses, closerPc, stopPc, stop2Pc, panicked,
                   chanHist>>
    /\ ColFrame

\* Variant of CloseOutput that waits for the cancellation of the collection
\* ctx instead of the WaitGroup.
CloseOutputOnCancel ==
    /\ closerPc = "wait"
    /\ CtxDone
    /\ outCloses' = outCloses + 1
    /\ closerPc' = "closeErr"
    /\ panicked' = (panicked \/ outCloses > 0)
    /\ UNCHANGED <<dcSources, dcLocations, started, parentDone, cancelled, wg, tpc,
                   tickPending, outputChan, errorChan, errCloses, stopPc, stop2Pc, chanHist>>
    /\ ColFrame

\* Variant of CloseOutput that does not wait for the WaitGroup.
CloseOutputNoWait ==
    /\ closerPc = "wait"
    /\ outCloses' = outCloses + 1
    /\ closerPc' = "closeErr"
    /\ panicked' = (panicked \/ outCloses > 0)
    /\ UNCHANGED <<dcSources, dcLocations, started, parentDone, cancelled, wg, tpc,
                   tickPending, outputChan, errorChan, errCloses, stopPc, stop2Pc, chanHist>>
    /\ ColFrame

\* the closing goroutine: wg.Wait() returns; close(dc.outputChan)
CloseOutput ==
    /\ closerPc = "wait"
    /\ wg = 0
    /\ outCloses' = outCloses + 1
    /\ closerPc' = "closeErr"
    /\ panicked' = (panicked \/ outCloses > 0)
    /\ UNCHANGED <<dcSources, dcLocations, started, parentDone, cancelled, wg, tpc,
                   tickPending, outputChan, errorChan, errCloses, stopPc, stop2Pc, chanHist>>
    /\ ColFrame

\* the closing goroutine: close(dc.errorChan)
CloseError ==
    /\ closerPc = "closeErr"
    /\ errCloses' = errCloses + 1
    /\ closerPc' = "done"
    /\ panicked' = (panicked \/ errCloses > 0)
    /\ UNCHANGED <<dcSources, dcLocations, started, parentDone, cancelled, wg, tpc,
                   tickPending, outputChan, errorChan, outCloses, stopPc, stop2Pc, chanHist>>
    /\ ColFrame

\* the stop function is called: cancelCollection()
StopCancel ==
    /\ stopPc = "idle"
    /\ cancelled' = TRUE
    /\ stopPc' = "wait"
    /\ UNCHANGED stop2Pc
    /\ chanHist' = [chanHist EXCEPT !.earlyStop =
                       /\ chanHist.ticks = 0
                       /\ chanHist.sentOut = 0
                       /\ chanHist.sentErr = 0
                       /\ chanHist.received = 0]
    /\ UNCHANGED <<dcSources, dcLocations, started, parentDone, wg, tpc, tickPending,
                   outputChan, errorChan, outCloses, errCloses, closerPc, panicked>>
    /\ ColFrame

\* Variant of StopReturn that returns without waiting for the WaitGroup.
StopReturnNoWait ==
    /\ stopPc = "wait"
    /\ stopPc' = "returned"
    /\ UNCHANGED stop2Pc
    /\ UNCHANGED <<dcSources, dcLocations, started, parentDone, cancelled, wg, tpc,
                   tickPending, outputChan, errorChan, outCloses, errCloses, closerPc,
                   panicked, chanHist>>
    /\ ColFrame

\* the stop function: wg.Wait() returns, and stop returns
StopReturn ==
    /\ stopPc = "wait"
    /\ wg = 0
    /\ stopPc' = "returned"
    /\ UNCHANGED stop2Pc
    /\ UNCHANGED <<dcSources, dcLocations, started, parentDone, cancelled, wg, tpc,
                   tickPending, outputChan, errorChan, outCloses, errCloses, closerPc,
                   panicked, chanHist>>
    /\ ColFrame

\* the ctx passed to Start is cancelled by its owner
ParentCancel ==
    /\ started
    /\ ~parentDone
    /\ parentDone' = TRUE
    /\ UNCHANGED <<dcSources, dcLocations, started, cancelled, wg, tpc, tickPending,
                   outputChan, errorChan, outCloses, errCloses, closerPc, stopPc, stop2Pc, panicked,
                   chanHist>>
    /\ ColFrame

\* the stop function is called once more, by the same or another goroutine,
\* before, while or after the first call runs: cancelCollection() again
StopAgainCancel ==
    /\ stop2Pc = "idle"
    /\ stopPc # "idle"
    /\ cancelled' = TRUE
    /\ stop2Pc' = "wait"
    /\ UNCHANGED <<dcSources, dcLocations, started, parentDone, wg, tpc, tickPending,
                   outputChan, errorChan, outCloses, errCloses, closerPc, stopPc, panicked,
                   chanHist>>
    /\ ColFrame

\* Variant of StopAgainReturn in which the stop function closes the channels
\* itself after its wg.Wait().
StopAgainReturnCloses ==
    /\ stop2Pc = "wait"
    /\ wg = 0
    /\ stop2Pc' = "returned"
    /\ outCloses' = outCloses + 1
    /\ errCloses' = errCloses + 1
    /\ panicked' = (panicked \/ outCloses > 0 \/ errCloses > 0)
    /\ UNCHANGED <<dcSources, dcLocations, started, parentDone, cancelled, wg, tpc,
                   tickPending, outputChan, errorChan, closerPc, stopPc, chanHist>>
    /\ ColFrame

\* the second call: wg.Wait() returns, and the call returns
StopAgainReturn ==
    /\ stop2Pc = "wait"
    /\ wg = 0
    /\ stop2Pc' = "returned"
    /\ UNCHANGED <<dcSources, dcLocations, started, parentDone, cancelled, wg, tpc,
                   tickPending, outputChan, errorChan, outCloses, errCloses, closerPc,
                   stopPc, panicked, chanHist>>
    /\ ColFrame

\* a consumer receives a reading from OutputChannel()
ReceiveOutput ==
    /\ outputChan # <<>>
    /\ outputChan' = Tail(outputChan)
    /\ chanHist' = [chanHist EXCEPT !.received = @ + 1]
    /\ UNCHANGED <<dcSources, dcLocations, started, parentDone, cancelled, wg, tpc,
                   tickPending, errorChan, outCloses, errCloses, closerPc, stopPc, stop2Pc, panicked>>
    /\ ColFrame

\* a consumer receives an error from ErrorChannel()
ReceiveError ==
    /\ errorChan # <<>>
    /\ errorChan' = Tail(errorChan)
    /\ chanHist' = [chanHist EXCEPT !.received = @ + 1]
    /\ UNCHANGED <<dcSources, dcLocations, started, parentDone, cancelled, wg, tpc,
                   tickPending, outputChan, outCloses, errCloses, closerPc, stopPc, stop2Pc, panicked>>
    /\ ColFrame

InitCollector ==
    /\ now = 0
    /\ IdleCacheVars
    /\ IdleLimVars
    /\ NewWeatherStore
    /\ NewForecastStore
    /\ IdleUpdVars
    /\ \E config \in DistinctConfigs :
         NewDataCollector(config.sources, config.locations)

NextCollector ==
    \/ Start
    \/ \E t \in Tasks : InitialFetch(t)
    \/ \E t \in Tasks : TickerTick(t)
    \/ \E t \in Tasks : TickerFetch(t)
    \/ \E t \in Tasks : FetchFails(t)
    \/ \E t \in Tasks : FetchSucceeds(t)
    \/ \E t \in Tasks : SendOutput(t)
    \/ \E t \in Tasks : SendAbandon(t)
    \/ \E t \in Tasks : TaskExit(t)
    \/ CloseOutput
    \/ CloseError
    \/ StopCancel
    \/ StopReturn
    \/ ParentCancel
    \/ ReceiveOutput
    \/ ReceiveError

SpecCollector == InitCollector /\ [][NextCollector]_vars

\* Scheduling: a goroutine that can take a step eventually takes one.  The
\* source returns from every fetch (http.Client timeout and fetchCtx).  No
\* step is ever required of the consumer, the tickers, the owner of the
\* parent ctx or the caller of stop before it has called stop.
CollectorFairness ==
    /\ \A t \in AllTasks :
         /\ WF_vars(InitialFetch(t))
         /\ WF_vars(FetchFails(t) \/ FetchSucceeds(t))
         /\ WF_vars(SendOutput(t) \/ SendAbandon(t))
         /\ WF_vars(TickerFetch(t) \/ TaskExit(t))
    /\ WF_vars(CloseOutput)
    /\ WF_vars(CloseError)
    /\ WF_vars(StopReturn)

SpecCollectorFair == SpecCollector /\ CollectorFairness

\* The collector built with any of the lists, repeated elements included.
InitCollectorLists ==
    /\ now = 0
    /\ IdleCacheVars
    /\ IdleLimVars
    /\ NewWeatherStore
    /\ NewForecastStore
    /\ IdleUpdVars
    /\ \E config \in CollectorConfigs :
         NewDataCollector(config.sources, config.locations)

SpecCollectorLists == InitCollectorLists /\ [][NextCollector]_vars

\* The collector with the stop function called up to twice.  The ctx passed
\* to Start is left alone in these runs: the second call begins after the
\* cancelCollection() of the first, from which point the collection ctx is
\* done whatever its parent does.
NextCollectorStops ==
    \/ Start
    \/ \E t \in Tasks : InitialFetch(t)
    \/ \E t \in Tasks : TickerTick(t)
    \/ \E t \in Tasks : TickerFetch(t)
    \/ \E t \in Tasks : FetchFails(t)
    \/ \E t \in Tasks : FetchSucceeds(t)
    \/ \E t \in Tasks : SendOutput(t)
    \/ \E t \in Tasks : SendAbandon(t)
    \/ \E t \in Tasks : TaskExit(t)
    \/ CloseOutput
    \/ CloseError
    \/ StopCancel
    \/ StopReturn
    \/ StopAgainCancel
    \/ StopAgainReturn
    \/ ReceiveOutput
    \/ ReceiveError

SpecCollectorStops == InitCollector /\ [][NextCollectorStops]_vars

\* Scheduling of the second call: its wg.Wait() returns once the counter is zero.
SpecCollectorStopsFair ==
    SpecCollectorStops /\ CollectorFairness /\ WF_vars(StopAgainReturn)

(***************************************************************************)
(* Claims about the collector (SpecCollector; the liveness claims under    *)
(* SpecCollectorFair).                                                     *)
(***************************************************************************)

\* C5: when stop returns every task has exited, and from then on no task
\* changes position, no fetch is started and nothing is sent on outputChan or
\* errorChan.
C5_NothingAfterStop ==
    [][/\ stopPc' = "returned" => AllExited'
       /\ stopPc = "returned" =>
            /\ tpc' = tpc
            /\ chanHist'.fetches = chanHist.fetches
            /\ chanHist'.sentOut = chanHist.sentOut
            /\ chanHist'.sentErr = chanHist.sentErr]_vars

\* C5 witness: stop has returned on a collector with two tasks that had
\* sent a reading and abandoned a send.
C5_Witness ==
    /\ stopPc = "returned"
    /\ Cardinality(Tasks) = 2
    /\ chanHist.sentOut >= 1
    /\ chanHist.abandoned # {}

\* C6: if stop is called before any tick fired and before anything was sent
\* or received, then stop eventually returns and both channels are eventually
\* closed.
C6_EarlyStopCloses ==
    (stopPc = "wait" /\ chanHist.earlyStop)
        ~> (stopPc = "returned" /\ outCloses = 1 /\ errCloses = 1)

\* C6 witness: after such an early stop on a collector with two tasks, stop
\* has returned and both channels are closed.
C6_Witness ==
    /\ chanHist.earlyStop
    /\ Cardinality(Tasks) = 2
    /\ stopPc = "returned"
    /\ outCloses = 1
    /\ errCloses = 1

\* C7: each channel is closed at most once, only by the closing goroutine
\* after its wg.Wait(), hence only when every task has exited; when the closing
\* goroutine is done each channel has been closed exactly once.
C7_ClosedOnceAfterExit ==
    /\ outCloses <= 1
    /\ errCloses <= 1
    /\ (outCloses > 0 \/ errCloses > 0) => (started /\ AllExited)
    /\ outCloses > 0 <=> closerPc \in {"closeErr", "done"}
    /\ errCloses > 0 <=> closerPc = "done"
    /\ ~panicked

\* C7 witness: both channels closed after two tasks made three fetches.
C7_Witness ==
    /\ outCloses = 1
    /\ errCloses = 1
    /\ Cardinality(Tasks) = 2
    /\ chanHist.fetches >= 3

\* C8: once the ctx passed to Start is cancelled, every task eventually exits
\* and both channels are eventually closed, whether or not stop is called and
\* whether or not anybody receives from the channels.
C8_ParentCancelUnwinds ==
    (started /\ parentDone) ~> (AllExited /\ outCloses = 1 /\ errCloses = 1)

\* C8 witness: stop was never called, nothing was ever received, outputChan is
\* full, a task gave up a blocked send, and all tasks exited and both
\* channels are closed.
C8_Witness ==
    /\ parentDone
    /\ stopPc = "idle"
    /\ chanHist.received = 0
    /\ Len(outputChan) = OutCap
    /\ chanHist.abandoned # {}
    /\ Cardinality(Tasks) = 2
    /\ AllExited
    /\ outCloses = 1
    /\ errCloses = 1

\* The step in which the fetch of task t fails: the task leaves
\* source.FetchWeatherData without reaching the send on outputChan.
FailedFetchStep(t) ==
    /\ tpc[t] = "fetching"
    /\ tpc'[t] \notin {"fetching", "sending"}

\* A tick is waiting for task t, which is in its select and not cancelled.
TickDue(t) == tpc[t] = "waiting" /\ tickPending[t] /\ ~CtxDone

\* C16: when a fetch fails while the error channel is full, the error is
\* dropped (the channel keeps its content) and the task does not block: it
\* goes on to the select that waits for its next tick or for cancellation.
C16_FullErrorChanDrops ==
    [][\A t \in AllTasks :
          (FailedFetchStep(t) /\ Len(errorChan) = ErrCap) =>
              /\ errorChan' = errorChan
              /\ tpc'[t] = "waiting"]_vars

\* C16 witness: an error was dropped on the full channel, the channel is
\* still full and the task is already in its next fetch.
C16_Witness ==
    /\ chanHist.lastFail.why # "none"
    /\ chanHist.lastFail.dropped
    /\ Len(errorChan) = ErrCap
    /\ tpc[chanHist.lastFail.task] = "fetching"

C18_FailureIsolated ==
    /\ [][\A t \in AllTasks :
            FailedFetchStep(t) =>
                /\ tpc'[t] = "waiting"
                /\ \A u \in AllTasks \ {t} : tpc'[u] = tpc[u]
                /\ UNCHANGED <<wg, cancelled, parentDone, outputChan, tickPending>>]_vars
    /\ \A u \in AllTasks : TickDue(u) ~> (tpc[u] = "fetching" \/ CtxDone)

\* C18 witness: with two tasks, one failed and is in its next fetch while
\* the other has delivered a reading and is still running.
C18_Witness ==
    /\ chanHist.lastFail.why # "none"
    /\ tpc[chanHist.lastFail.task] = "fetching"
    /\ chanHist.sentOut >= 1
    /\ ~CtxDone
    /\ \E u \in Tasks : u # chanHist.lastFail.task /\ tpc[u] \in {"waiting", "fetching"}
    /\ chanHist.abandoned = {}

(***************************************************************************)
(* Claims about the tasks of the collector (SpecCollectorLists for the     *)
(* claim about the pairs, SpecCollector and SpecCollectorFair otherwise).  *)
(***************************************************************************)

\* The tasks launched for the (source, location) pair pr.
TasksOf(pr) == {t \in Tasks : tpc[t] # "none" /\ PairOf(t) = pr}

\* Neither dc.sources nor dc.locations names an element twice.
NoRepeats ==
    /\ \A i, j \in 1..Len(dcSources) : dcSources[i] = dcSources[j] => i = j
    /\ \A i, j \in 1..Len(dcLocations) : dcLocations[i] = dcLocations[j] => i = j

\* C24 as stated: once Start has run, every (source, location) pair of the
\* collector has exactly one task.
C24_OneTaskPerPair ==
    started => \A pr \in Pairs : Cardinality(TasksOf(pr)) = 1

\* What Start guarantees in place of C24: it launches one task for every pair
\* of an entry of dc.sources and an entry of dc.locations and no other task, the
\* WaitGroup counts the tasks that have not exited, every (source, location)
\* pair has at least one task, and exactly one when neither list names an
\* element twice.  The first step of every task is its initial fetch:
\* it leaves "spawned" only into "fetching", by one more fetch, with no tick
\* delivered to it or consumed.
C24_OneTaskPerListEntryPair ==
    [][/\ started' =>
            /\ \A t \in AllTasks : tpc'[t] # "none" <=> t \in Tasks
            /\ wg' = Cardinality({t \in Tasks : tpc'[t] # "exited"})
            /\ \A pr \in Pairs : Cardinality({t \in Tasks : tpc'[t] # "none" /\ PairOf(t) = pr}) >= 1
            /\ NoRepeats =>
                 \A pr \in Pairs : Cardinality({t \in Tasks : tpc'[t] # "none" /\ PairOf(t) = pr}) = 1
       /\ ~started /\ started' => \A t \in Tasks : tpc'[t] = "spawned"
       /\ \A t \in Tasks :
            /\ tpc'[t] = "spawned" => ~tickPending'[t]
            /\ (tpc[t] = "spawned" /\ tpc'[t] # "spawned") =>
                 /\ tpc'[t] = "fetching"
                 /\ chanHist'.fetches = chanHist.fetches + 1
                 /\ chanHist'.ticks = chanHist.ticks
                 /\ tickPending' = tickPending]_vars

\* C24 witness: a collector whose location list names one location twice has
\* two tasks for its only pair, and both are in their first fetch before any
\* tick was delivered.
C24_Witness ==
    /\ started
    /\ ~NoRepeats
    /\ Cardinality(Pairs) = 1
    /\ \A pr \in Pairs : Cardinality(TasksOf(pr)) = 2
    /\ \A t \in Tasks : tpc[t] = "fetching"
    /\ chanHist.fetches = 2
    /\ chanHist.ticks = 0

\* Task t is inside fetchOnce: in the call of the source or in the select
\* that sends the reading.
InFlight(t) == tpc[t] \in {"fetching", "sending"}

\* A step that starts a fetch is a step of one task that was not inside
\* fetchOnce: its initial fetch, or a fetch from the select on ticker.C, which
\* the task reaches only when its previous fetchOnce has returned.
FetchStartsSequential ==
    chanHist'.fetches # chanHist.fetches =>
        /\ chanHist'.fetches = chanHist.fetches + 1
        /\ \E t \in Tasks :
             /\ tpc[t] \in {"spawned", "waiting"}
             /\ tpc'[t] = "fetching"
             /\ \A u \in Tasks \ {t} : tpc'[u] = tpc[u]

\* A task leaves the sending select only by a completed send or by giving
\* the send up, and leaves the call of the source only with its result.
FetchOnceReturns ==
    \A t \in Tasks :
        /\ (tpc[t] = "sending" /\ tpc'[t] # "sending") =>
             /\ tpc'[t] = "waiting"
             /\ \/ chanHist'.sentOut = chanHist.sentOut + 1
                \/ t \in chanHist'.abandoned
                \/ panicked'
        /\ (tpc[t] = "fetching" /\ tpc'[t] # "fetching") =>
             \/ tpc'[t] = "sending"
             \/ tpc'[t] = "waiting" /\ chanHist'.lastFail.task = t

\* C25 as stated: at every moment at most one fetch of a (source, location)
\* pair is in flight, and a fetch starts only when the previous fetch of its
\* task has been resolved and its send has completed or been abandoned.
C25_PairFetchesSequential ==
    [][/\ \A pr \in Pairs :
            Cardinality({t \in Tasks : PairOf(t) = pr /\ tpc'[t] \in {"fetching", "sending"}}) <= 1
       /\ FetchStartsSequential
       /\ FetchOnceReturns]_vars

\* What the code guarantees in place of C25: the fetches of one task are
\* strictly sequential.
C25_TaskFetchesSequential ==
    [][FetchStartsSequential /\ FetchOnceReturns]_vars

\* C25 witness: the two tasks of one pair are inside fetchOnce at the same
\* time, one in the call of the source on its second fetch and one in the
\* sending select.
C25_Witness ==
    /\ Cardinality(Pairs) = 1
    /\ \E t, u \in Tasks :
         /\ t # u
         /\ PairOf(t) = PairOf(u)
         /\ tpc[t] = "fetching"
         /\ tpc[u] = "sending"
    /\ chanHist.fetches = 3

\* C26: a task that holds a reading leaves the sending select only by putting
\* the reading on outputChan, or, once the collection context is done, by
\* giving the send up; until one of the two happens it stays in the select,
\* whatever ticks arrive and however long outputChan stays full.  A send is
\* given up only when the context is done.
C26_ReadingHeldUntilAccepted ==
    [][/\ \A t \in Tasks :
            (tpc[t] = "sending" /\ tpc'[t] # "sending") =>
                \/ /\ Len(outputChan) < OutCap
                   /\ outputChan' = Append(outputChan, t)
                   /\ chanHist'.sentOut = chanHist.sentOut + 1
                \/ /\ CtxDone
                   /\ t \in chanHist'.abandoned
                   /\ outputChan' = outputChan
       /\ chanHist'.abandoned # chanHist.abandoned => CtxDone
       /\ ~panicked']_vars

\* C26 witness: a task is held in the sending select by an outputChan that
\* another task's reading filled and nobody receives from, while its tick is
\* due and the context is not done.
C26_Witness ==
    /\ ~CtxDone
    /\ Len(outputChan) = OutCap
    /\ chanHist.received = 0
    /\ \E t \in Tasks : tpc[t] = "sending" /\ tickPending[t]

\* C32: in no interleaving of the tasks, the closing goroutine, stop and the
\* cancellation of the parent ctx is a value sent on outputChan or errorChan
\* after that channel was closed: no goroutine panics, and while a channel is
\* closed no task is at a point of fetchOnce from which it could still send.
C32_NoSendOnClosedChannel ==
    /\ ~panicked
    /\ \A t \in Tasks :
         (outCloses > 0 \/ errCloses > 0) => tpc[t] \notin {"spawned", "fetching", "sending", "waiting"}

\* C32 witness: both channels are closed after two tasks sent readings and
\* errors, with stop called and the parent ctx cancelled as well.
C32_Witness ==
    /\ outCloses = 1
    /\ errCloses = 1
    /\ Cardinality(Tasks) = 2
    /\ chanHist.sentOut >= 1
    /\ chanHist.sentErr >= 1
    /\ cancelled
    /\ parentDone

\* C33, as stated: in the step in which the stop function returns, both
\* channels have already been closed.
C33_ClosedWhenStopReturns ==
    [][(stopPc = "wait" /\ stopPc' = "returned") => (outCloses = 1 /\ errCloses = 1)]_vars

\* What stop guarantees when it returns: every task has exited, so the closing
\* goroutine is no longer blocked in its wg.Wait().
C33_TasksExitedWhenStopReturns ==
    stopPc = "returned" => (AllExited /\ wg = 0)

\* The failing run of C33: stop has returned with tasks that had run, and the
\* closing goroutine has closed neither channel yet.
C33_Witness ==
    /\ stopPc = "returned"
    /\ Tasks # {}
    /\ closerPc = "wait"
    /\ outCloses = 0
    /\ errCloses = 0

\* C34: a second call of the stop function, whether it runs after or together
\* with the first, eventually returns; no goroutine panics; neither call closes
\* a channel (the channels are closed only by the closing goroutine, each at
\* most once).
C34_SecondStopHarmless ==
    /\ (stop2Pc = "wait") ~> (stop2Pc = "returned")
    /\ [](~panicked /\ outCloses <= 1 /\ errCloses <= 1)
    /\ [][(stopPc' # stopPc \/ stop2Pc' # stop2Pc) =>
             (outCloses' = outCloses /\ errCloses' = errCloses)]_vars

\* C34 witness: both calls of stop have returned after two tasks had run and
\* sent a reading, and each channel was closed once.
C34_Witness ==
    /\ stopPc = "returned"
    /\ stop2Pc = "returned"
    /\ Cardinality(Tasks) = 2
    /\ chanHist.sentOut >= 1
    /\ outCloses = 1
    /\ errCloses = 1

(***************************************************************************)
(* WeatherStore                                                            *)
(*                                                                         *)
(* UpdateWeather runs under s.mutex.Lock(); its body is modelled in two    *)
(* steps (the scan for the provider, then the write), so that the mutual   *)
(* exclusion of the writers is what keeps the update atomic.  A reading is *)
(* (Provider, Location, val); val numbers the readings handed to the store.*)
(*                                                                         *)
(* s.data[location] is a Go slice: a view of an array.  `data` holds the   *)
(* elements of the current slices, `backing` names the array behind each   *)
(* and its capacity.  A write in place (s.data[location][i] = data) changes *)
(* the array every holder of a slice of it reads from; append moves the    *)
(* elements to a new array when the capacity is used up, and the old array *)
(* keeps its content for those who still hold it (`retired`).              *)
(*                                                                         *)
(* GetWeatherByLocation returns s.data[location] itself, not a copy, and   *)
(* its caller, handleGetWeatherByLocation, encodes the records one after   *)
(* the other once the read lock is released.  A reader is that handler.    *)
(***************************************************************************)
MaxUpdates == 3     \* calls of UpdateWeather in one behaviour
MaxReads == 1       \* calls of the read accessors in one behaviour

StoreProviders == {"OpenWeatherMap", "WeatherAPI"}

Readings(n) ==
    {[Provider |-> pr, Location |-> l, val |-> n] : pr \in StoreProviders, l \in Locations}

\* for i, existingData := range s.data[location] { if existingData.Provider == data.Provider ... break }
ProviderIndex(list, provider) ==
    IF \E i \in 1..Len(list) : list[i].Provider = provider
    THEN CHOOSE i \in 1..Len(list) :
            /\ list[i].Provider = provider
            /\ \A j \in 1..(i - 1) : list[j].Provider # provider
    ELSE 0

StoreFrame == UNCHANGED <<now, cacheVars, limVars, colVars, forecastVars, updVars>>

\* Variant of UpdateWeather that enters without taking s.mutex.
UpdateWeatherNoLock(w, d) ==
    /\ wpc[w] = "idle"
    /\ Len(updates) + Cardinality({v \in Writers : wpc[v] # "idle"}) < MaxUpdates
    /\ wreq' = [wreq EXCEPT ![w] = d]
    /\ wpc' = [wpc EXCEPT ![w] = "locked"]
    /\ UNCHANGED <<data, mutex, wfound, updates, backing, nArrays, retired, readVars>>
    /\ StoreFrame

\* UpdateWeather(data): s.mutex.Lock()
UpdateWeather(w, d) ==
    /\ wpc[w] = "idle"
    /\ Len(updates) + Cardinality({v \in Writers : wpc[v] # "idle"}) < MaxUpdates
    /\ mutex = {}
    /\ rlocked = {}
    /\ mutex' = {w}
    /\ wreq' = [wreq EXCEPT ![w] = d]
    /\ wpc' = [wpc EXCEPT ![w] = "locked"]
    /\ UNCHANGED <<data, wfound, updates, backing, nArrays, retired, readVars>>
    /\ StoreFrame

\* UpdateWeather: create the location's list if absent (an empty slice, of
\* capacity 0), then scan it for a record of the same provider
ScanProviders(w) ==
    /\ wpc[w] = "locked"
    /\ LET location == wreq[w].Location
           list == IF location \in DOMAIN data THEN data[location] ELSE <<>>
       IN /\ data' = MapPut(data, location, list)
          /\ backing' = IF location \in DOMAIN backing
                        THEN backing
                        ELSE MapPut(backing, location, [array |-> 0, cap |-> 0])
          /\ wfound' = [wfound EXCEPT ![w] = ProviderIndex(list, wreq[w].Provider)]
    /\ wpc' = [wpc EXCEPT ![w] = "scanned"]
    /\ UNCHANGED <<mutex, wreq, updates, nArrays, retired, readVars>>
    /\ StoreFrame

\* The capacity append gives the new array when the old one is full.
GrowCap(cap) == IF cap = 0 THEN 1 ELSE 2 * cap

\* The readers whose handler still reads from the array `array`.
Holders(array) ==
    {r \in Readers : rpc[r] = "encoding" /\ rslice[r].exists /\ rslice[r].array = array}

\* The arrays behind a write: a write in place keeps the array; append keeps
\* it while there is room and else allocates a new one, leaving the old one
\* to the readers that hold it.
WriteBacking(location, inPlace) ==
    IF inPlace \/ Len(data[location]) < backing[location].cap
    THEN UNCHANGED <<backing, nArrays, retired>>
    ELSE /\ nArrays' = nArrays + 1
         /\ backing' = [backing EXCEPT ![location] =
                           [array |-> nArrays + 1, cap |-> GrowCap(@.cap)]]
         /\ retired' = IF Holders(backing[location].array) # {}
                       THEN MapPut(retired, backing[location].array, data[location])
                       ELSE retired

\* Variant of WriteReading that leaves an existing record of the provider as it is.
WriteReadingKeepsOld(w) ==
    /\ wpc[w] = "scanned"
    /\ data' = [data EXCEPT ![wreq[w].Location] =
                   IF wfound[w] # 0 THEN @ ELSE Append(@, wreq[w])]
    /\ WriteBacking(wreq[w].Location, wfound[w] # 0)
    /\ updates' = Append(updates, wreq[w])
    /\ mutex' = mutex \ {w}
    /\ wpc' = [wpc EXCEPT ![w] = "idle"]
    /\ UNCHANGED <<wreq, wfound, readVars>>
    /\ StoreFrame

\* Variant of WriteReading that removes an existing record of the provider
\* and appends the reading at the end of the list.
WriteReadingMovesToEnd(w) ==
    /\ wpc[w] = "scanned"
    /\ data' = [data EXCEPT ![wreq[w].Location] =
                   Append(SelectSeq(@, LAMBDA rec : rec.Provider # wreq[w].Provider), wreq[w])]
    /\ WriteBacking(wreq[w].Location, wfound[w] # 0)
    /\ updates' = Append(updates, wreq[w])
    /\ mutex' = mutex \ {w}
    /\ wpc' = [wpc EXCEPT ![w] = "idle"]
    /\ UNCHANGED <<wreq, wfound, readVars>>
    /\ StoreFrame

\* UpdateWeather: s.data[location][i] = data when found, else
\* s.data[location] = append(s.data[location], data); deferred s.mutex.Unlock()
WriteReading(w) ==
    /\ wpc[w] = "scanned"
    /\ data' = [data EXCEPT ![wreq[w].Location] =
                   IF wfound[w] # 0
                   THEN [@ EXCEPT ![wfound[w]] = wreq[w]]
                   ELSE Append(@, wreq[w])]
    /\ WriteBacking(wreq[w].Location, wfound[w] # 0)
    /\ updates' = Append(updates, wreq[w])
    /\ mutex' = mutex \ {w}
    /\ wpc' = [wpc EXCEPT ![w] = "idle"]
    /\ UNCHANGED <<wreq, wfound, readVars>>
    /\ StoreFrame

\* a handler enters a read accessor: s.mutex.RLock()
BeginStoreRead(r, req) ==
    /\ rpc[r] = "idle"
    /\ nReads < MaxReads
    /\ mutex = {}
    /\ nReads' = nReads + 1
    /\ rlocked' = rlocked \cup {r}
    /\ rreq' = [rreq EXCEPT ![r] = req]
    /\ rpc' = [rpc EXCEPT ![r] = "rlocked"]
    /\ UNCHANGED <<rslice, robs>>
    /\ UNCHANGED <<data, mutex, wpc, wreq, wfound, updates, backing, nArrays, retired, rdone>>
    /\ StoreFrame

\* Variant of GetWeatherByLocation that enters without taking the read lock.
GetWeatherByLocationNoLock(r, location) ==
    /\ rpc[r] = "idle"
    /\ nReads < MaxReads
    /\ nReads' = nReads + 1
    /\ rreq' = [rreq EXCEPT ![r] = [op |-> "GetWeatherByLocation", location |-> location]]
    /\ UNCHANGED <<rslice, robs>>
    /\ rpc' = [rpc EXCEPT ![r] = "rlocked"]
    /\ UNCHANGED <<data, mutex, wpc, wreq, wfound, updates, backing, nArrays, retired, rlocked,
                   rdone>>
    /\ StoreFrame

\* GetWeatherByLocation(location): s.mutex.RLock()
GetWeatherByLocation(r, location) ==
    BeginStoreRead(r, [op |-> "GetWeatherByLocation", location |-> location])

\* GetAllLocations(): s.mutex.RLock()
GetAllLocations(r) ==
    BeginStoreRead(r, [op |-> "GetAllLocations"])

\* GetWeatherByLocation: data, exists := s.data[location]; return data, exists
\* (the slice itself); GetAllLocations: the keys copied into a new slice;
\* deferred s.mutex.RUnlock()
StoreReadReturn(r) ==
    /\ rpc[r] = "rlocked"
    /\ rslice' = [rslice EXCEPT ![r] =
          IF rreq[r].op = "GetAllLocations"
          THEN [NoSlice EXCEPT !.locations = DOMAIN data]
          ELSE IF rreq[r].location \in DOMAIN data
               THEN [exists |-> TRUE, location |-> rreq[r].location,
                     array |-> backing[rreq[r].location].array,
                     len |-> Len(data[rreq[r].location]), locations |-> {}]
               ELSE NoSlice]
    /\ rlocked' = rlocked \ {r}
    /\ rpc' = [rpc EXCEPT ![r] = "encoding"]
    /\ UNCHANGED <<data, mutex, wpc, wreq, wfound, updates, backing, nArrays, retired,
                   rreq, robs, rdone, nReads>>
    /\ StoreFrame

\* The writers that are about to overwrite element i of the array `array`
\* (between the scan and s.data[location][i] = data).
Overwriting(array, i) ==
    {w \in Writers : /\ wpc[w] = "scanned"
                     /\ wfound[w] = i
                     /\ backing[wreq[w].Location].array = array}

\* A record read while it is being overwritten: some fields of the old
\* reading and some of the new one (val -1 stands for the mixture).
TornReading(old, new) == [old EXCEPT !.val = -1]

\* The values a read of element i through the slice header h can give: the
\* element of the array, and, when the read races with a writer overwriting
\* that element, also the new reading or a mixture of both.
ElementRead(h, i) ==
    LET current == IF backing[h.location].array = h.array
                   THEN data[h.location][i]
                   ELSE retired[h.array][i]
    IN {current}
          \cup {wreq[w] : w \in Overwriting(h.array, i)}
          \cup {TornReading(current, wreq[w]) : w \in Overwriting(h.array, i)}

\* handleGetWeatherByLocation: json.NewEncoder(w).Encode(response) reads the
\* next record through the slice GetWeatherByLocation returned
EncodeRecord(r) ==
    /\ rpc[r] = "encoding"
    /\ rslice[r].exists
    /\ Len(robs[r]) < rslice[r].len
    /\ \E e \in ElementRead(rslice[r], Len(robs[r]) + 1) :
          robs' = [robs EXCEPT ![r] = Append(@, e)]
    /\ UNCHANGED <<data, mutex, wpc, wreq, wfound, updates, backing, nArrays, retired,
                   rlocked, rpc, rreq, rslice, rdone, nReads>>
    /\ StoreFrame

\* the handler has written its response; arrays nobody holds any more are
\* garbage
HandlerReturns(r) ==
    /\ rpc[r] = "encoding"
    /\ rslice[r].exists => Len(robs[r]) = rslice[r].len
    /\ rpc' = [rpc EXCEPT ![r] = "idle"]
    /\ rdone' = [req |-> rreq[r], exists |-> rslice[r].exists,
                 locations |-> rslice[r].locations, obs |-> robs[r]]
    /\ rreq' = [rreq EXCEPT ![r] = [op |-> "none"]]
    /\ rslice' = [rslice EXCEPT ![r] = NoSlice]
    /\ robs' = [robs EXCEPT ![r] = <<>>]
    /\ retired' = [a \in {x \in DOMAIN retired : Holders(x) \ {r} # {}} |-> retired[a]]
    /\ UNCHANGED <<data, mutex, wpc, wreq, wfound, updates, backing, nArrays,
                   rlocked, nReads>>
    /\ StoreFrame

InitStore ==
    /\ now = 0
    /\ IdleCacheVars
    /\ IdleLimVars
    /\ IdleColVars
    /\ NewWeatherStore
    /\ NewForecastStore
    /\ IdleUpdVars

NextStore ==
    \/ \E w \in Entering(Writers, wpc) :
         \E d \in Readings(Len(updates) + Cardinality({v \in Writers : wpc[v] # "idle"}) + 1) :
            UpdateWeather(w, d)
    \/ \E w \in Writers : ScanProviders(w)
    \/ \E w \in Writers : WriteReading(w)
    \/ \E r \in Entering(Readers, rpc) : \E location \in Locations :
          GetWeatherByLocation(r, location)
    \/ \E r \in Entering(Readers, rpc) : GetAllLocations(r)
    \/ \E r \in Readers : StoreReadReturn(r)
    \/ \E r \in Readers : EncodeRecord(r)
    \/ \E r \in Readers : HandlerReturns(r)

SpecStore == InitStore /\ [][NextStore]_vars

(***************************************************************************)
(* Claims about the weather store (checked under SpecStore).               *)
(***************************************************************************)

\* The readings of the completed updates for one (location, provider) pair.
UpdatesOf(location, provider) ==
    {i \in 1..Len(updates) :
        updates[i].Location = location /\ updates[i].Provider = provider}

\* The records of a provider in the stored list of a location.
RecordsOf(location, provider) ==
    IF location \in DOMAIN data
    THEN {i \in 1..Len(data[location]) : data[location][i].Provider = provider}
    ELSE {}

\* C9: in every state, after any interleaving of UpdateWeather calls, the
\* list stored for a location holds at most one record per provider name.
C9_OneRecordPerProvider ==
    \A location \in DOMAIN data : \A i, j \in 1..Len(data[location]) :
        data[location][i].Provider = data[location][j].Provider => i = j

\* C9 witness: two providers stored for one location after a replacement.
C9_Witness ==
    \E location \in DOMAIN data :
        /\ Len(data[location]) = 2
        /\ Len(updates) = 3
        /\ \A i \in 1..3 : updates[i].Location = location

\* C10: a (location, provider) pair that was updated has exactly one record,
\* which holds the reading of the last update of that pair (so two updates of
\* the same pair leave one record with the second value), and a location's
\* list has as many records as providers were updated for it (two different
\* providers leave two records).
C10_LastValuePerPair ==
    \A location \in Locations : \A provider \in StoreProviders :
        /\ UpdatesOf(location, provider) # {} =>
              /\ Cardinality(RecordsOf(location, provider)) = 1
              /\ \A i \in RecordsOf(location, provider) :
                    data[location][i] =
                        updates[CHOOSE u \in UpdatesOf(location, provider) :
                                    \A v \in UpdatesOf(location, provider) : v <= u]
        /\ UpdatesOf(location, provider) = {} => RecordsOf(location, provider) = {}
        /\ location \in DOMAIN data =>
              Len(data[location]) =
                  Cardinality({pr \in StoreProviders : UpdatesOf(location, pr) # {}})

\* C10 witness: one pair updated twice and a second provider updated once for
\* the same location: two records, the first holding the second value.
C10_Witness ==
    \E location \in DOMAIN data : \E p1, p2 \in StoreProviders :
        /\ p1 # p2
        /\ Cardinality(UpdatesOf(location, p1)) = 2
        /\ Cardinality(UpdatesOf(location, p2)) = 1
        /\ Len(data[location]) = 2
        /\ \A w \in Writers : wpc[w] = "idle"

\* The store map after one whole update of reading d applied to map m.
ApplyUpdate(m, d) ==
    LET list == IF d.Location \in DOMAIN m THEN m[d.Location] ELSE <<>>
        i == ProviderIndex(list, d.Provider)
    IN MapPut(m, d.Location, IF i # 0 THEN [list EXCEPT ![i] = d] ELSE Append(list, d))

RECURSIVE StoreAfter(_)
\* The store map after the first k completed updates.
StoreAfter(k) == IF k = 0 THEN <<>> ELSE ApplyUpdate(StoreAfter(k - 1), updates[k])

\* While a writer is inside its critical section it is alone there: no other
\* writer and no reader holds s.mutex.
StoreLockExclusive ==
    /\ Cardinality(mutex) <= 1
    /\ mutex # {} => rlocked = {}
    /\ \A w \in Writers : wpc[w] # "idle" => w \in mutex
    /\ \A r \in Readers : rpc[r] = "rlocked" => r \in rlocked

\* C13 (weather store): while a writer is inside its critical section no
\* other writer and no reader is inside its own, and every read observes a
\* state that is the result of a whole number of completed writes: what the
\* reader of a location has seen is the list of that location after some
\* number of completed updates, and the locations listed are the locations
\* present after some number of completed updates.
C13_ReadsSeeWholeWrites ==
    /\ StoreLockExclusive
    /\ rdone.req.op = "GetWeatherByLocation" =>
          \E k \in 0..Len(updates) :
             IF rdone.req.location \in DOMAIN StoreAfter(k)
             THEN rdone.exists /\ rdone.obs = StoreAfter(k)[rdone.req.location]
             ELSE ~rdone.exists
    /\ rdone.req.op = "GetAllLocations" =>
          \E k \in 0..Len(updates) : rdone.locations = DOMAIN StoreAfter(k)

\* The list the store holds for a location; empty for a location it has no
\* entry for.
ListOf(m, location) == IF location \in DOMAIN m THEN m[location] ELSE <<>>

\* C28: a step of UpdateWeather(reading) changes the store map only at
\* reading.Location.  The step that completes the update leaves a list in
\* which, if the provider had a record, the reading stands at the index of
\* that record and every other index holds the record it held, and, if it had
\* none, the old list is followed by the reading; the step before it only
\* creates the empty list of a location that had none.  The lists of all
\* other locations, and the set of the other locations, are unchanged.
C28_UpdateFrame ==
    [][data' # data =>
         \E w \in Writers :
            LET d == wreq[w]
                old == ListOf(data, d.Location)
                new == ListOf(data', d.Location)
            IN /\ mutex = {w}
               /\ DOMAIN data' = DOMAIN data \cup {d.Location}
               /\ \A location \in DOMAIN data \ {d.Location} : data'[location] = data[location]
               /\ IF updates' = updates
                  THEN /\ d.Location \notin DOMAIN data
                       /\ new = <<>>
                  ELSE /\ updates' = Append(updates, d)
                       /\ IF \E i \in 1..Len(old) : old[i].Provider = d.Provider
                          THEN /\ Len(new) = Len(old)
                               /\ \A i \in 1..Len(old) :
                                     new[i] = IF old[i].Provider = d.Provider THEN d ELSE old[i]
                          ELSE new = Append(old, d)]_vars

\* C28 witness: the first record of a list of two was replaced by a later
\* reading of its provider and kept its index, in front of the record of the
\* other provider.
C28_Witness ==
    \E location \in DOMAIN data :
        /\ Len(data[location]) = 2
        /\ data[location][1].val > data[location][2].val
        /\ \A w \in Writers : wpc[w] = "idle"

\* The contents of the list reader r holds: the first len elements of the
\* array its slice header points to.
HeldList(r) ==
    LET h == rslice[r]
    IN IF backing[h.location].array = h.array
       THEN SubSeq(data[h.location], 1, h.len)
       ELSE SubSeq(retired[h.array], 1, h.len)

\* Reader r holds a list GetWeatherByLocation has returned.
HoldsList(r) == rpc[r] = "encoding" /\ rslice[r].exists

\* C35, as stated: the list GetWeatherByLocation returned is a snapshot; no
\* step taken while the reader holds it (a later UpdateWeather for the
\* location, replacing or appending) changes its contents.
C35_ReturnedListIsSnapshot ==
    [][\A r \in Readers : (HoldsList(r) /\ HoldsList(r)') => HeldList(r)' = HeldList(r)]_vars

\* What holds of the returned list: an UpdateWeather that appends leaves it as
\* it is (the list keeps its length, and the appended record is outside it);
\* only an update that replaces a record of the list changes it.
C35_AppendKeepsReturnedList ==
    [][\A r \in Readers :
          (HoldsList(r) /\ HoldsList(r)' /\ HeldList(r)' # HeldList(r)) =>
              \E w \in Writers : /\ wpc[w] = "scanned"
                                 /\ wfound[w] # 0
                                 /\ wreq[w].Location = rslice[r].location]_vars

\* The failing run of C35: a reader read the first record of the list it was
\* handed, and with no write in progress the list it still holds now has
\* another record there.
C35_Witness ==
    /\ \A w \in Writers : wpc[w] = "idle"
    /\ \E r \in Readers :
         /\ HoldsList(r)
         /\ Len(robs[r]) >= 1
         /\ robs[r][1].val >= 0
         /\ HeldList(r)[1] # robs[r][1]

(***************************************************************************)
(* ForecastStore                                                           *)
(*                                                                         *)
(* s.data maps a location to the map of its providers' forecasts.  The     *)
(* writers (UpdateForecast, PruneOldForecasts) run under s.mutex.Lock(),   *)
(* the readers under s.mutex.RLock().  The body of a writer is modelled in *)
(* several steps, so that the lock is what hides the intermediate maps     *)
(* (the empty group UpdateForecast creates, a half-pruned map).  A         *)
(* forecast is (Provider, Location, Updated, val); Updated is the clock    *)
(* value at which the provider built it (the current or the previous clock *)
(* unit when it reaches the store) and val numbers the store calls.        *)
(***************************************************************************)
MaxForecastOps == 3    \* calls of ForecastStore methods in one behaviour
MaxForecastTime == 2   \* the clock of the forecast store runs from 0 to MaxForecastTime

MaxAges == {0, 1}      \* values of maxAge handed to PruneOldForecasts

\* Updated: time.Now() when the provider built the forecast
UpdatedAt == {u \in {now - 1, now} : u >= 0}

Forecasts(n) ==
    {[Provider |-> pr, Location |-> l, Updated |-> u, val |-> n] :
        pr \in StoreProviders, l \in Locations, u \in UpdatedAt}

\* delete(m, key) on a Go map
MapDelete(m, key) == [k \in DOMAIN m \ {key} |-> m[k]]

\* Variant of Before that also reports an equal instant.
BeforeOrEqual(t, u) == t <= u

\* time.Time.Before
Before(t, u) == t < u

ForecastFrame == UNCHANGED <<now, cacheVars, limVars, colVars, storeVars, updVars>>

\* s.mutex.Lock() returns: no goroutine holds the lock in either mode
CanLock == fmutex.writer = {} /\ fmutex.readers = {}

\* s.mutex.RLock() returns: no goroutine holds the write lock
CanRLock == fmutex.writer = {}

\* a client enters a store method: the part common to all methods
BeginCall(c, req, pc) ==
    /\ fpc[c] = "idle"
    /\ fOps < MaxForecastOps
    /\ fOps' = fOps + 1
    /\ freq' = [freq EXCEPT ![c] = req]
    /\ fpc' = [fpc EXCEPT ![c] = pc]

\* History: the series last written for every (location, provider) key and
\* not pruned since, after the call `req` that started at clock value `at`.
LastWritten(last, req, at) ==
    CASE req.op = "UpdateForecast" ->
            MapPut(last, <<req.data.Location, req.data.Provider>>, req.data)
      [] req.op = "PruneOldForecasts" ->
            [key \in {k \in DOMAIN last : last[k].Updated >= at - req.maxAge} |-> last[key]]
      [] OTHER -> last

\* a client returns from a store method
EndCall(c, res, pre) ==
    /\ fhist' = [req |-> freq[c], res |-> res, pre |-> pre, post |-> fdata',
                 at |-> flocal[c].at,
                 last |-> LastWritten(fhist.last, freq[c], flocal[c].at)]
    /\ freq' = [freq EXCEPT ![c] = NoForecastCall]
    /\ flocal' = [flocal EXCEPT ![c] = NoPruneLocals]
    /\ fpc' = [fpc EXCEPT ![c] = "idle"]

\* UpdateForecast(data): s.mutex.Lock()
UpdateForecast(c, d) ==
    /\ CanLock
    /\ BeginCall(c, [op |-> "UpdateForecast", data |-> d], "update")
    /\ fmutex' = [fmutex EXCEPT !.writer = {c}]
    /\ flocal' = [flocal EXCEPT ![c].pre = fdata, ![c].at = now]
    /\ UNCHANGED <<fdata, fhist>>
    /\ ForecastFrame

\* UpdateForecast: if _, exists := s.data[location]; !exists { s.data[location] = make(...) }
CreateGroup(c) ==
    /\ fpc[c] = "update"
    /\ LET location == freq[c].data.Location
       IN fdata' = IF location \in DOMAIN fdata
                   THEN fdata
                   ELSE MapPut(fdata, location, <<>>)
    /\ fpc' = [fpc EXCEPT ![c] = "store"]
    /\ UNCHANGED <<fmutex, freq, flocal, fhist, fOps>>
    /\ ForecastFrame

\* Variant of StoreForecast that keeps the series a provider already has.
StoreForecastKeepsFirst(c) ==
    /\ fpc[c] = "store"
    /\ LET d == freq[c].data
       IN fdata' = IF d.Provider \in DOMAIN fdata[d.Location]
                   THEN fdata
                   ELSE [fdata EXCEPT ![d.Location] = MapPut(@, d.Provider, d)]
    /\ fmutex' = [fmutex EXCEPT !.writer = {}]
    /\ EndCall(c, [ret |-> "void"], flocal[c].pre)
    /\ UNCHANGED fOps
    /\ ForecastFrame

\* UpdateForecast: s.data[location][provider] = data; deferred s.mutex.Unlock()
StoreForecast(c) ==
    /\ fpc[c] = "store"
    /\ LET d == freq[c].data
       IN fdata' = [fdata EXCEPT ![d.Location] = MapPut(@, d.Provider, d)]
    /\ fmutex' = [fmutex EXCEPT !.writer = {}]
    /\ EndCall(c, [ret |-> "void"], flocal[c].pre)
    /\ UNCHANGED fOps
    /\ ForecastFrame

\* PruneOldForecasts(maxAge): s.mutex.Lock(); cutoff := time.Now().Add(-maxAge);
\* prunedCount := 0; the range over s.data begins
PruneBegins(c, maxAge) ==
    /\ CanLock
    /\ BeginCall(c, [op |-> "PruneOldForecasts", maxAge |-> maxAge], "prune")
    /\ fmutex' = [fmutex EXCEPT !.writer = {c}]
    /\ flocal' = [flocal EXCEPT ![c] =
                     [cutoff |-> now - maxAge, prunedCount |-> 0, todo |-> DOMAIN fdata,
                      pre |-> fdata, at |-> now]]
    /\ UNCHANGED <<fdata, fhist>>

\* PruneOldForecasts called by a client of the store alone
PruneOldForecasts(c, maxAge) ==
    /\ PruneBegins(c, maxAge)
    /\ ForecastFrame

\* The providers of a group whose forecast is older than the cutoff:
\* if forecast.Updated.Before(cutoff)
Stale(providers, cutoff) ==
    {provider \in DOMAIN providers : Before(providers[provider].Updated, cutoff)}

\* Variant of PruneLocation that leaves a location whose group became empty.
PruneLocationKeepsEmpty(c, location) ==
    /\ fpc[c] = "prune"
    /\ location \in flocal[c].todo
    /\ LET stale == Stale(fdata[location], flocal[c].cutoff)
           kept == [provider \in DOMAIN fdata[location] \ stale |-> fdata[location][provider]]
       IN /\ fdata' = [fdata EXCEPT ![location] = kept]
          /\ flocal' = [flocal EXCEPT ![c].prunedCount = @ + Cardinality(stale),
                                      ![c].todo = @ \ {location}]
    /\ UNCHANGED <<fmutex, fpc, freq, fhist, fOps>>
    /\ ForecastFrame

\* PruneOldForecasts: one iteration of the range over s.data (the map is
\* visited in an unspecified order): delete the stale providers of the
\* location, counting them, then delete the location if its group is empty
PruneLocation(c, location) ==
    /\ fpc[c] = "prune"
    /\ location \in flocal[c].todo
    /\ LET stale == Stale(fdata[location], flocal[c].cutoff)
           kept == [provider \in DOMAIN fdata[location] \ stale |-> fdata[location][provider]]
       IN /\ fdata' = IF DOMAIN kept = {}
                      THEN MapDelete(fdata, location)
                      ELSE [fdata EXCEPT ![location] = kept]
          /\ flocal' = [flocal EXCEPT ![c].prunedCount = @ + Cardinality(stale),
                                      ![c].todo = @ \ {location}]
    /\ UNCHANGED <<fmutex, fpc, freq, fhist, fOps>>
    /\ ForecastFrame

\* Variant of PruneReturn that returns the number of forecasts the store
\* held when the call began.
PruneReturnCountsAll(c) ==
    /\ fpc[c] = "prune"
    /\ flocal[c].todo = {}
    /\ fmutex' = [fmutex EXCEPT !.writer = {}]
    /\ UNCHANGED <<fdata, fOps>>
    /\ EndCall(c, [ret |-> "count",
                   n |-> Cardinality({e \in Locations \X StoreProviders :
                                        /\ e[1] \in DOMAIN flocal[c].pre
                                        /\ e[2] \in DOMAIN flocal[c].pre[e[1]]})],
               flocal[c].pre)
    /\ ForecastFrame

\* PruneOldForecasts: return prunedCount; deferred s.mutex.Unlock()
PruneReturn(c) ==
    /\ fpc[c] = "prune"
    /\ flocal[c].todo = {}
    /\ fmutex' = [fmutex EXCEPT !.writer = {}]
    /\ UNCHANGED <<fdata, fOps>>
    /\ EndCall(c, [ret |-> "count", n |-> flocal[c].prunedCount], flocal[c].pre)
    /\ ForecastFrame

\* a reader enters: s.mutex.RLock()
BeginRead(c, req) ==
    /\ CanRLock
    /\ BeginCall(c, req, "rlocked")
    /\ fmutex' = [fmutex EXCEPT !.readers = @ \cup {c}]
    /\ flocal' = [flocal EXCEPT ![c].at = now]
    /\ UNCHANGED <<fdata, fhist>>
    /\ ForecastFrame

\* GetForecastByLocation(location): s.mutex.RLock()
GetForecastByLocation(c, location) ==
    BeginRead(c, [op |-> "GetForecastByLocation", location |-> location])

\* GetForecastByProvider(location, provider): s.mutex.RLock()
GetForecastByProvider(c, location, provider) ==
    BeginRead(c, [op |-> "GetForecastByProvider", location |-> location,
                  provider |-> provider])

\* GetAllForecastLocations(): s.mutex.RLock()
GetAllForecastLocations(c) ==
    BeginRead(c, [op |-> "GetAllForecastLocations"])

\* Variant of ReadResult in which GetForecastByProvider answers for a missing
\* provider with the series of a provider the location has.
ReadResultAnyProvider(req) ==
    CASE req.op = "GetForecastByLocation" ->
            IF req.location \in DOMAIN fdata
            THEN [ret |-> "forecasts", exists |-> TRUE,
                  forecasts |-> {fdata[req.location][provider] :
                                    provider \in DOMAIN fdata[req.location]}]
            ELSE [ret |-> "forecasts", exists |-> FALSE, forecasts |-> {}]
      [] req.op = "GetForecastByProvider" ->
            IF req.location \in DOMAIN fdata
            THEN [ret |-> "forecast", exists |-> TRUE,
                  forecasts |-> {fdata[req.location][
                                    IF req.provider \in DOMAIN fdata[req.location]
                                    THEN req.provider
                                    ELSE CHOOSE provider \in DOMAIN fdata[req.location] : TRUE]}]
            ELSE [ret |-> "forecast", exists |-> FALSE, forecasts |-> {}]
      [] req.op = "GetAllForecastLocations" ->
            [ret |-> "locations", locations |-> DOMAIN fdata]

\* The value a reader returns from the map it reads.  The slices are built
\* by ranging over a map, so their order is unspecified: they are sets here.
ReadResult(req) ==
    CASE req.op = "GetForecastByLocation" ->
            IF req.location \in DOMAIN fdata
            THEN [ret |-> "forecasts", exists |-> TRUE,
                  forecasts |-> {fdata[req.location][provider] :
                                    provider \in DOMAIN fdata[req.location]}]
            ELSE [ret |-> "forecasts", exists |-> FALSE, forecasts |-> {}]
      [] req.op = "GetForecastByProvider" ->
            IF req.location \in DOMAIN fdata
            THEN IF req.provider \in DOMAIN fdata[req.location]
                 THEN [ret |-> "forecast", exists |-> TRUE,
                       forecasts |-> {fdata[req.location][req.provider]}]
                 ELSE [ret |-> "forecast", exists |-> FALSE, forecasts |-> {}]
            ELSE [ret |-> "forecast", exists |-> FALSE, forecasts |-> {}]
      [] req.op = "GetAllForecastLocations" ->
            [ret |-> "locations", locations |-> DOMAIN fdata]

\* Variant of ReadReturn in which a read removes the series that are more
\* than one clock unit old.
ReadReturnDropsOld(c) ==
    /\ fpc[c] = "rlocked"
    /\ fmutex' = [fmutex EXCEPT !.readers = @ \ {c}]
    /\ LET recent(location) == {provider \in DOMAIN fdata[location] :
                                    fdata[location][provider].Updated >= now - 1}
       IN fdata' = [location \in {l \in DOMAIN fdata : recent(l) # {}} |->
                       [provider \in recent(location) |-> fdata[location][provider]]]
    /\ UNCHANGED fOps
    /\ EndCall(c, ReadResult(freq[c]), fdata)
    /\ ForecastFrame

\* the body of a reader and its deferred s.mutex.RUnlock()
ReadReturn(c) ==
    /\ fpc[c] = "rlocked"
    /\ fmutex' = [fmutex EXCEPT !.readers = @ \ {c}]
    /\ UNCHANGED <<fdata, fOps>>
    /\ EndCall(c, ReadResult(freq[c]), fdata)
    /\ ForecastFrame

\* the clock advances
ForecastTick ==
    /\ now < MaxForecastTime
    /\ now' = now + 1
    /\ UNCHANGED <<cacheVars, limVars, colVars, storeVars, forecastVars, updVars>>

InitForecast ==
    /\ now = 0
    /\ IdleCacheVars
    /\ IdleLimVars
    /\ IdleColVars
    /\ NewWeatherStore
    /\ NewForecastStore
    /\ IdleUpdVars

NextForecast ==
    \/ \E c \in Entering(FClients, fpc) : \E d \in Forecasts(fOps + 1) : UpdateForecast(c, d)
    \/ \E c \in FClients : CreateGroup(c)
    \/ \E c \in FClients : StoreForecast(c)
    \/ \E c \in Entering(FClients, fpc) : \E maxAge \in MaxAges : PruneOldForecasts(c, maxAge)
    \/ \E c \in FClients : \E location \in Locations : PruneLocation(c, location)
    \/ \E c \in FClients : PruneReturn(c)
    \/ \E c \in Entering(FClients, fpc) : \E location \in Locations :
          GetForecastByLocation(c, location)
    \/ \E c \in Entering(FClients, fpc) : \E location \in Locations :
          \E provider \in StoreProviders : GetForecastByProvider(c, location, provider)
    \/ \E c \in Entering(FClients, fpc) : GetAllForecastLocations(c)
    \/ \E c \in FClients : ReadReturn(c)
    \/ ForecastTick

SpecForecast == InitForecast /\ [][NextForecast]_vars

(***************************************************************************)
(* Claims about the forecast store (checked under SpecForecast).           *)
(***************************************************************************)

\* The (location, provider) entries of a forecast map.
Entries(m) == {e \in Locations \X StoreProviders :
                  e[1] \in DOMAIN m /\ e[2] \in DOMAIN m[e[1]]}

\* The last completed call was a call of the method `op`.
Completed(op) == fhist.req.op = op

\* The entries of map m that a prune called at clock value `at` with `maxAge`
\* has to remove: Updated strictly before at - maxAge.
TooOld(m, at, maxAge) == {e \in Entries(m) : m[e[1]][e[2]].Updated < at - maxAge}

\* While a writer of the forecast store is inside its critical section it
\* is alone there, and every reader inside its own holds the read lock.
ForecastLockExclusive ==
    /\ Cardinality(fmutex.writer) <= 1
    /\ fmutex.writer # {} => fmutex.readers = {}
    /\ \A c \in FClients : fpc[c] \in {"update", "store", "prune"} => c \in fmutex.writer
    /\ \A c \in FClients : fpc[c] = "rlocked" => c \in fmutex.readers

\* C11: a completed PruneOldForecasts(maxAge) has removed exactly the entries
\* whose Updated is strictly before now - maxAge, left every other entry
\* present and unchanged (an entry whose Updated equals the cutoff stays), and
\* returned the number of entries removed, which is the entry count before
\* minus the entry count after.
C11_PruneExact ==
    Completed("PruneOldForecasts") =>
        LET pre == fhist.pre
            post == fhist.post
            old == TooOld(pre, fhist.at, fhist.req.maxAge)
        IN /\ Entries(post) = Entries(pre) \ old
           /\ \A e \in Entries(post) : post[e[1]][e[2]] = pre[e[1]][e[2]]
           /\ fhist.res.n = Cardinality(old)
           /\ fhist.res.n = Cardinality(Entries(pre)) - Cardinality(Entries(post))

\* C11 witness: a completed prune that removed one entry and kept another
\* whose Updated equals the cutoff.
C11_Witness ==
    /\ Completed("PruneOldForecasts")
    /\ fhist.res.n = 1
    /\ Cardinality(Entries(fhist.pre)) = 2
    /\ \E e \in Entries(fhist.post) :
          fhist.post[e[1]][e[2]].Updated = fhist.at - fhist.req.maxAge

\* C12: outside the critical section of a writer no location is present
\* with an empty provider group; GetAllForecastLocations reports, and
\* GetForecastByLocation finds, a location exactly when it has at least one
\* provider entry; a prune that removes only some entries of a location
\* leaves the location present with the remaining ones.
C12_NoEmptyGroup ==
    /\ fmutex.writer = {} => \A location \in DOMAIN fdata : DOMAIN fdata[location] # {}
    /\ Completed("GetAllForecastLocations") =>
          fhist.res.locations = {e[1] : e \in Entries(fhist.pre)}
    /\ Completed("GetForecastByLocation") =>
          /\ fhist.res.exists <=> \E e \in Entries(fhist.pre) : e[1] = fhist.req.location
          /\ fhist.res.forecasts =
                {fhist.pre[e[1]][e[2]] :
                    e \in {x \in Entries(fhist.pre) : x[1] = fhist.req.location}}
    /\ Completed("PruneOldForecasts") =>
          LET pre == fhist.pre
              post == fhist.post
              old == TooOld(pre, fhist.at, fhist.req.maxAge)
          IN \A location \in DOMAIN pre :
                LET remaining == {e[2] : e \in {x \in Entries(pre) \ old : x[1] = location}}
                IN IF remaining = {}
                   THEN location \notin DOMAIN post
                   ELSE location \in DOMAIN post /\ DOMAIN post[location] = remaining

\* C12 witness: a prune removed one of the two provider entries of a
\* location, which stays present in the store with the remaining one.
C12_Witness ==
    /\ Completed("PruneOldForecasts")
    /\ fmutex.writer = {}
    /\ \E location \in DOMAIN fhist.pre :
          /\ Cardinality(DOMAIN fhist.pre[location]) = 2
          /\ location \in DOMAIN fdata
          /\ Cardinality(DOMAIN fdata[location]) = 1

\* C22: outside the critical section of a writer the store holds, for
\* every (location, provider) key that was written and not pruned since, one
\* series, the one last written for the key, and no other entry; a completed
\* UpdateForecast has put its series under its key and left every other
\* entry as it was; GetForecastByProvider returns the series last written
\* for its key, or not found when the key was never written or was pruned.
C22_LastSeriesPerKey ==
    /\ fmutex.writer = {} =>
          /\ Entries(fdata) = DOMAIN fhist.last
          /\ \A e \in Entries(fdata) : fdata[e[1]][e[2]] = fhist.last[e]
    /\ Completed("UpdateForecast") =>
          LET d == fhist.req.data
              key == <<d.Location, d.Provider>>
          IN /\ Entries(fhist.post) = Entries(fhist.pre) \cup {key}
             /\ fhist.post[key[1]][key[2]] = d
             /\ \A e \in Entries(fhist.pre) \ {key} :
                   fhist.post[e[1]][e[2]] = fhist.pre[e[1]][e[2]]
    /\ Completed("GetForecastByProvider") =>
          LET key == <<fhist.req.location, fhist.req.provider>>
          IN IF key \in DOMAIN fhist.last
             THEN /\ fhist.res.exists
                  /\ fhist.res.forecasts = {fhist.last[key]}
             ELSE /\ ~fhist.res.exists
                  /\ fhist.res.forecasts = {}

\* C22 witness: an update has replaced the series of a key that already had
\* one, next to an entry of another key.
C22_Witness ==
    /\ Completed("UpdateForecast")
    /\ fmutex.writer = {}
    /\ LET d == fhist.req.data
           key == <<d.Location, d.Provider>>
       IN /\ key \in Entries(fhist.pre)
          /\ fhist.pre[key[1]][key[2]] # d
          /\ fdata[key[1]][key[2]] = d
          /\ Cardinality(Entries(fdata)) = 2

\* The PruneOldForecasts call client c is running repeats the call completed
\* last: same maxAge, same instant, and the map it found is the map that call
\* left (no update in between).
RepeatsLastPrune(c) ==
    /\ fpc[c] = "prune"
    /\ Completed("PruneOldForecasts")
    /\ freq[c].maxAge = fhist.req.maxAge
    /\ flocal[c].at = fhist.at
    /\ flocal[c].pre = fhist.post

\* C40: when PruneOldForecasts returns, every entry left in the store has
\* Updated not before the instant of the call minus maxAge; and a call that
\* repeats the previous prune (same maxAge, same instant, no update in
\* between) returns 0 and leaves the map as it found it.
C40_PruneIdempotent ==
    [][\A c \in FClients :
          (fpc[c] = "prune" /\ fpc'[c] = "idle") =>
              /\ fhist'.req = freq[c]
              /\ \A e \in Entries(fhist'.post) :
                    fhist'.post[e[1]][e[2]].Updated >= fhist'.at - fhist'.req.maxAge
              /\ fdata' = fhist'.post
              /\ RepeatsLastPrune(c) =>
                    /\ fhist'.res = [ret |-> "count", n |-> 0]
                    /\ fhist'.post = fhist.post]_vars

\* C40 witness: a prune has completed and left an entry whose Updated equals
\* its cutoff; a second call with the same maxAge at the same instant has
\* gone through the store and removed nothing.
C40_Witness ==
    \E c \in FClients :
        /\ RepeatsLastPrune(c)
        /\ flocal[c].todo = {}
        /\ flocal[c].prunedCount = 0
        /\ fdata = fhist.post
        /\ \E e \in Entries(fdata) : fdata[e[1]][e[2]].Updated = fhist.at - fhist.req.maxAge

(***************************************************************************)
(* The two stores together                                                 *)
(*                                                                         *)
(* main creates one WeatherStore and one ForecastStore; they share no      *)
(* state and no lock, so what a behaviour of the program does to one store *)
(* is a behaviour of that store alone.  SpecStores explores each store     *)
(* from the common initial state, for the claims that speak of both.       *)
(***************************************************************************)
\* No call of the WeatherStore was made.
WeatherStoreUnused ==
    /\ updates = <<>>
    /\ nReads = 0
    /\ \A w \in Writers : wpc[w] = "idle"

\* No call of the ForecastStore was made.
ForecastStoreUnused == fOps = 0 /\ now = 0

InitStores ==
    /\ now = 0
    /\ IdleCacheVars
    /\ IdleLimVars
    /\ IdleColVars
    /\ NewWeatherStore
    /\ NewForecastStore
    /\ IdleUpdVars

NextStores ==
    \/ ForecastStoreUnused /\ NextStore
    \/ WeatherStoreUnused /\ NextForecast

SpecStores == InitStores /\ [][NextStores]_vars

(***************************************************************************)
(* Claims about both stores (checked under SpecStores).                    *)
(***************************************************************************)

\* No completed UpdateWeather was made for the location.
NeverWritten(location) == \A i \in 1..Len(updates) : updates[i].Location # location

\* C23: a read of a key that is not in a store returns found = false and no
\* record (the accessors have no error result).  WeatherStore: a
\* GetWeatherByLocation for a location no UpdateWeather was completed for
\* returns exists = false and the handler has no record to encode.
\* ForecastStore: GetForecastByLocation for a location without a series
\* written and not pruned since, and GetForecastByProvider for a key without
\* one (the location is missing, or present without that provider), return
\* exists = false and no series.
C23_AbsentKeyNotFound ==
    /\ \A r \in Readers :
          (/\ rpc[r] = "encoding"
           /\ rreq[r].op = "GetWeatherByLocation"
           /\ NeverWritten(rreq[r].location)) =>
              /\ ~rslice[r].exists
              /\ robs[r] = <<>>
    /\ (rdone.req.op = "GetWeatherByLocation" /\ NeverWritten(rdone.req.location)) =>
          /\ ~rdone.exists
          /\ rdone.obs = <<>>
    /\ (/\ Completed("GetForecastByLocation")
        /\ \A key \in DOMAIN fhist.last : key[1] # fhist.req.location) =>
          /\ fhist.res.ret = "forecasts"
          /\ ~fhist.res.exists
          /\ fhist.res.forecasts = {}
    /\ (/\ Completed("GetForecastByProvider")
        /\ <<fhist.req.location, fhist.req.provider>> \notin DOMAIN fhist.last) =>
          /\ fhist.res.ret = "forecast"
          /\ ~fhist.res.exists
          /\ fhist.res.forecasts = {}

\* C23 witness: GetForecastByProvider did not find a provider in a location
\* that holds a series of the other provider.
C23_Witness ==
    /\ Completed("GetForecastByProvider")
    /\ ~fhist.res.exists
    /\ fhist.req.location \in DOMAIN fdata
    /\ fhist.req.provider \notin DOMAIN fdata[fhist.req.location]
    /\ DOMAIN fdata[fhist.req.location] # {}

\* The read accessors of the ForecastStore.
ForecastReadOps == {"GetForecastByLocation", "GetForecastByProvider", "GetAllForecastLocations"}

\* The (location, provider) keys of a ForecastStore map.
ForecastKeys(m) ==
    {key \in Locations \X StoreProviders : key[1] \in DOMAIN m /\ key[2] \in DOMAIN m[key[1]]}

\* C29: no step of a read accessor changes what a store holds.  WeatherStore:
\* a step of a handler inside GetWeatherByLocation or GetAllLocations (or
\* encoding what they returned) leaves the map, its arrays and the list of
\* completed updates as they are, and the map changes only in a step of the
\* writer that holds the lock.  ForecastStore: a step of a client inside
\* GetForecastByLocation, GetForecastByProvider or GetAllForecastLocations
\* leaves the map as it is; a key leaves the map only in a step of a client
\* that is inside PruneOldForecasts; and GetForecastByProvider returns the
\* series the map holds for its key whatever the age of the series.
C29_ReadsArePure ==
    [][/\ (rpc' # rpc \/ nReads' # nReads) =>
            /\ data' = data
            /\ backing' = backing
            /\ updates' = updates
       /\ data' # data => \E w \in Writers : mutex = {w} /\ rpc' = rpc
       /\ \A c \in FClients :
            (fpc'[c] # fpc[c] /\ (freq[c].op \in ForecastReadOps
                                  \/ freq'[c].op \in ForecastReadOps)) =>
                /\ fdata' = fdata
                /\ fhist'.last = fhist.last
       /\ \A key \in ForecastKeys(fdata) \ ForecastKeys(fdata') :
            \E c \in FClients : fmutex.writer = {c} /\ freq[c].op = "PruneOldForecasts"
       /\ \A c \in FClients :
            (fpc[c] = "rlocked" /\ fpc'[c] = "idle" /\ freq[c].op = "GetForecastByProvider"
             /\ <<freq[c].location, freq[c].provider>> \in ForecastKeys(fdata)) =>
                /\ fhist'.res.exists
                /\ fhist'.res.forecasts = {fdata[freq[c].location][freq[c].provider]}
                /\ <<freq[c].location, freq[c].provider>> \in ForecastKeys(fdata')]_vars

\* C29 witness: GetForecastByProvider returned a series that was older, when
\* the read began, than every max age PruneOldForecasts is called with, and
\* the series is still in the store after the read.
C29_Witness ==
    /\ Completed("GetForecastByProvider")
    /\ fhist.res.exists
    /\ \A f \in fhist.res.forecasts : \A maxAge \in MaxAges : fhist.at - f.Updated > maxAge
    /\ <<fhist.req.location, fhist.req.provider>> \in ForecastKeys(fdata)
    /\ \A c \in FClients : fpc[c] = "idle"

(***************************************************************************)
(* updateData                                                              *)
(*                                                                         *)
(* The updater goroutine of main calls updateData at startup and on every  *)
(* tick, one call after the other.  A call launches one goroutine per      *)
(* (location, provider) pair for the current weather and one per           *)
(* (location, forecast source) pair for the forecast, and returns when all *)
(* of them are done (wg.Wait()).  A goroutine fetches, and stores what it  *)
(* fetched with UpdateWeather or UpdateForecast; these calls are the steps *)
(* of the two stores above, with the goroutine as the writer.  The weather *)
(* goroutines are named by Writers and the forecast goroutines by FClients,*)
(* in the order of the loops.  A provider answers for the location and     *)
(* under the name it was asked with; val is the number of the cycle.       *)
(***************************************************************************)
MaxCycles == 2      \* calls of updateData in one behaviour

\* main: config.Locations and the providers enabled in the configuration
\* (every provider is also a forecast source): one location with both
\* providers, whose pairs share a list of the WeatherStore and a group of the
\* ForecastStore, and one location with one provider.
UpdateConfigs ==
    {[locations |-> <<"London,UK">>, providers |-> <<"OpenWeatherMap", "WeatherAPI">>],
     [locations |-> <<"Paris,FR">>, providers |-> <<"WeatherAPI">>]}

\* The position of a goroutine in the order in which the loops launch them.
JobIndex(g) == IF g \in {"w1", "c1"} THEN 1 ELSE 2

\* The goroutines a call of updateData launches: one per pair and store.
UJobs ==
    {g \in Writers \cup FClients : JobIndex(g) <= Len(uconfig.locations) * Len(uconfig.providers)}

\* for _, location := range config.Locations { for _, provider := range providers {
\* the (location, provider) pair of goroutine g
UPairOf(g) ==
    LET n == Len(uconfig.providers)
        k == JobIndex(g) - 1
    IN <<uconfig.locations[(k \div n) + 1], uconfig.providers[(k % n) + 1]>>

\* data, err := prov.GetWeather(ctx, loc) with err == nil
WeatherOf(g) == [Provider |-> UPairOf(g)[2], Location |-> UPairOf(g)[1], val |-> ucycle]

\* forecast, err := src.FetchForecast(ctx, loc, 3) with err == nil
ForecastOf(g) ==
    [Provider |-> UPairOf(g)[2], Location |-> UPairOf(g)[1], Updated |-> now, val |-> ucycle]

\* The call of UpdateWeather / UpdateForecast of goroutine g has returned.
WeatherStored(g) == \E i \in 1..Len(updates) : updates[i] = WeatherOf(g)

ForecastStored(g) ==
    /\ <<UPairOf(g)[1], UPairOf(g)[2]>> \in DOMAIN fhist.last
    /\ fhist.last[<<UPairOf(g)[1], UPairOf(g)[2]>>] = ForecastOf(g)

Stored(g) == IF g \in Writers THEN WeatherStored(g) ELSE ForecastStored(g)

\* Goroutine g has returned (deferred wg.Done()).
JobDone(g) == ures[g] = "err" \/ (ures[g] = "ok" /\ Stored(g))

UpdFrame == UNCHANGED <<now, cacheVars, limVars, colVars, life>>

\* updateData is called: every goroutine is launched and starts its fetch
UpdateDataStart ==
    /\ ~urunning
    /\ ucycle < MaxCycles
    /\ ucycle' = ucycle + 1
    /\ urunning' = TRUE
    /\ ures' = [g \in Writers \cup FClients |-> IF g \in UJobs THEN "fetching" ELSE "none"]
    /\ UNCHANGED <<uconfig, storeVars, forecastVars>>
    /\ UpdFrame

\* if err != nil { log.Printf(...); return }
FetchReturnsError(g) ==
    /\ ures[g] = "fetching"
    /\ ures' = [ures EXCEPT ![g] = "err"]
    /\ UNCHANGED <<uconfig, ucycle, urunning, storeVars, forecastVars>>
    /\ UpdFrame

\* The store calls the bounds of the stores still leave room for.
RoomToStore(g) ==
    IF g \in Writers
    THEN Len(updates) + Cardinality({h \in Writers : ures[h] = "ok" /\ ~WeatherStored(h)})
            < MaxUpdates
    ELSE fOps + Cardinality({h \in FClients : /\ ures[h] = "ok"
                                               /\ fpc[h] = "idle"
                                               /\ ~ForecastStored(h)})
            < MaxForecastOps

\* the fetch returns data and no error
FetchReturnsData(g) ==
    /\ ures[g] = "fetching"
    /\ RoomToStore(g)
    /\ ures' = [ures EXCEPT ![g] = "ok"]
    /\ UNCHANGED <<uconfig, ucycle, urunning, storeVars, forecastVars>>
    /\ UpdFrame

\* Variant of StoreFetched that goes on to the store call after a failed
\* fetch as well.
StoreFetchedOrFailed(g) ==
    /\ urunning
    /\ ures[g] \in {"ok", "err"}
    /\ ~Stored(g)
    /\ IF g \in Writers
       THEN UpdateWeather(g, WeatherOf(g))
       ELSE UpdateForecast(g, ForecastOf(g))

\* weatherStore.UpdateWeather(data) / forecastStore.UpdateForecast(forecast):
\* the goroutine enters the store call with what it fetched
StoreFetched(g) ==
    /\ urunning
    /\ ures[g] = "ok"
    /\ ~Stored(g)
    /\ IF g \in Writers
       THEN UpdateWeather(g, WeatherOf(g))
       ELSE UpdateForecast(g, ForecastOf(g))

\* wg.Wait() returns: updateData returns
UpdateDataReturn ==
    /\ urunning
    /\ \A g \in UJobs : JobDone(g)
    /\ urunning' = FALSE
    /\ UNCHANGED <<uconfig, ucycle, ures, storeVars, forecastVars>>
    /\ UpdFrame

InitUpdate ==
    /\ now = 0
    /\ IdleCacheVars
    /\ IdleLimVars
    /\ IdleColVars
    /\ NewWeatherStore
    /\ NewForecastStore
    /\ uconfig \in UpdateConfigs
    /\ ucycle = 0
    /\ urunning = FALSE
    /\ ures = [g \in Writers \cup FClients |-> "none"]
    /\ life = NoLife

\* A step of goroutine g.
JobStep(g) ==
    \/ FetchReturnsError(g)
    \/ FetchReturnsData(g)
    \/ StoreFetched(g)
    \/ g \in Writers /\ ScanProviders(g)
    \/ g \in Writers /\ WriteReading(g)
    \/ g \in FClients /\ CreateGroup(g)
    \/ g \in FClients /\ StoreForecast(g)

NextUpdate ==
    \/ UpdateDataStart
    \/ \E g \in UJobs : FetchReturnsError(g)
    \/ \E g \in UJobs : FetchReturnsData(g)
    \/ \E g \in UJobs : StoreFetched(g)
    \/ \E w \in UJobs \cap Writers : ScanProviders(w)
    \/ \E w \in UJobs \cap Writers : WriteReading(w)
    \/ \E c \in UJobs \cap FClients : CreateGroup(c)
    \/ \E c \in UJobs \cap FClients : StoreForecast(c)
    \/ UpdateDataReturn

SpecUpdate == InitUpdate /\ [][NextUpdate]_vars

(***************************************************************************)
(* Claims about updateData (checked under SpecUpdate).                     *)
(***************************************************************************)

\* The records the two stores hold for the pair of goroutine g.
RecordsFor(g, weather, forecasts) ==
    IF g \in Writers
    THEN {ListOf(weather, UPairOf(g)[1])[i] :
            i \in {j \in 1..Len(ListOf(weather, UPairOf(g)[1])) :
                      ListOf(weather, UPairOf(g)[1])[j].Provider = UPairOf(g)[2]}}
    ELSE IF <<UPairOf(g)[1], UPairOf(g)[2]>> \in ForecastKeys(forecasts)
         THEN {forecasts[UPairOf(g)[1]][UPairOf(g)[2]]}
         ELSE {}

\* While updateData runs, every goroutine that is not done can take a step
\* or waits for a store lock whose holder can.
CycleProgress ==
    urunning =>
        \A g \in UJobs :
            ~JobDone(g) =>
                \/ ENABLED JobStep(g)
                \/ \E h \in UJobs \ {g} :
                      (h \in mutex \/ h \in fmutex.writer) /\ ENABLED JobStep(h)

\* When updateData has returned, every pair whose fetch succeeded holds the
\* reading of this cycle and every pair whose fetch failed holds none of it.
CycleOutcome ==
    (~urunning /\ ucycle > 0) =>
        \A g \in UJobs :
            /\ ures[g] \in {"ok", "err"}
            /\ ures[g] = "ok" =>
                  RecordsFor(g, data, fdata) =
                      {IF g \in Writers THEN WeatherOf(g) ELSE ForecastOf(g)}
            /\ ures[g] = "err" =>
                  \A rec \in RecordsFor(g, data, fdata) : rec.val < ucycle

MaxLifeTime == 3      \* clock values 0..MaxLifeTime while the process lives

\* ticker := time.NewTicker(24 * time.Hour): one pruning interval of the clock
PruneInterval == 1

\* forecastPruneAge := 48 * time.Hour
ForecastPruneAge == 2 * PruneInterval

\* the goroutine of the ForecastStore that is the pruning goroutine of main
Pruner == "c2"

\* config.Locations and the providers of this run: one pair
MainConfig == [locations |-> <<"Paris,FR">>, providers |-> <<"WeatherAPI">>]

\* main has not returned: the process and its goroutines exist
Alive == life.main # "exited"

\* close(updateChan) has been executed
UpdateChanClosed == life.main \in {"closed", "spawned", "exited"}

\* what the steps of updateData and of the store leave alone besides life
LifeFrame == UNCHANGED <<cacheVars, limVars, colVars>>

\* time passes while the process lives
LifeTick ==
    /\ Alive
    /\ now < MaxLifeTime
    /\ now' = now + 1
    /\ UNCHANGED <<storeVars, forecastVars, uconfig, ucycle, urunning, ures, life>>
    /\ LifeFrame

\* updater goroutine: updateData(...) at startup, and again in the
\* case <-ticker.C of its select
UpdaterCallsUpdateData ==
    /\ Alive
    /\ life.updater = "running"
    /\ UpdateDataStart

\* a goroutine of the running updateData call takes a step
UpdaterJobStep ==
    /\ Alive
    /\ \E g \in UJobs : JobStep(g)

\* updateData returns to the updater goroutine (wg.Wait() is over)
UpdaterCycleEnds ==
    /\ Alive
    /\ UpdateDataReturn

\* updater goroutine: case <-updateChan: return
UpdaterReturns ==
    /\ Alive
    /\ life.updater = "running"
    /\ ~urunning
    /\ ucycle >= 1
    /\ UpdateChanClosed
    /\ life' = [life EXCEPT !.updater = "exited"]
    /\ UNCHANGED <<now, storeVars, forecastVars, uconfig, ucycle, urunning, ures>>
    /\ LifeFrame

\* sig := <-shutdownChan; fmt.Printf("Shutting down ...")
ShutdownSignal ==
    /\ life.main = "waiting"
    /\ life' = [life EXCEPT !.main = "signalled", !.signalAt = now]
    /\ UNCHANGED <<now, storeVars, forecastVars, uconfig, ucycle, urunning, ures>>
    /\ LifeFrame

\* close(updateChan)
CloseUpdateChan ==
    /\ life.main = "signalled"
    /\ life' = [life EXCEPT !.main = "closed"]
    /\ UNCHANGED <<now, storeVars, forecastVars, uconfig, ucycle, urunning, ures>>
    /\ LifeFrame

\* go func() { ticker := time.NewTicker(24 * time.Hour); ... }(): the pruning
\* goroutine is started after the signal and after close(updateChan)
StartPruner ==
    /\ life.main = "closed"
    /\ life' = [life EXCEPT !.main = "spawned", !.pruner = "select", !.tickerAt = now]
    /\ UNCHANGED <<now, storeVars, forecastVars, uconfig, ucycle, urunning, ures>>
    /\ LifeFrame

\* fmt.Println("Shutdown complete"); main returns and the process ends
MainReturns ==
    /\ life.main = "spawned"
    /\ life' = [life EXCEPT !.main = "exited"]
    /\ UNCHANGED <<now, storeVars, forecastVars, uconfig, ucycle, urunning, ures>>
    /\ LifeFrame

\* the pruning goroutine is at its select
PrunerAtSelect == life.pruner = "select" /\ fpc[Pruner] = "idle"

\* pruning goroutine: case <-ticker.C: forecastStore.PruneOldForecasts(forecastPruneAge),
\* up to the point where the store is locked
PrunerCallsPrune ==
    /\ Alive
    /\ PrunerAtSelect
    /\ now - life.tickerAt >= PruneInterval
    /\ PruneBegins(Pruner, ForecastPruneAge)
    /\ life' = [life EXCEPT !.prunes = @ + 1, !.tickerAt = now]
    /\ UNCHANGED <<now, storeVars, uconfig, ucycle, urunning, ures>>
    /\ LifeFrame

\* the running PruneOldForecasts call takes a step
PrunerPruneStep ==
    /\ Alive
    /\ \/ \E location \in Locations : PruneLocation(Pruner, location)
       \/ PruneReturn(Pruner)

\* pruning goroutine: case <-updateChan: return
PrunerReturns ==
    /\ Alive
    /\ PrunerAtSelect
    /\ UpdateChanClosed
    /\ life' = [life EXCEPT !.pruner = "exited"]
    /\ UNCHANGED <<now, storeVars, forecastVars, uconfig, ucycle, urunning, ures>>
    /\ LifeFrame

\* main has started the updater goroutine and the server and waits for the signal
InitMain ==
    /\ now = 0
    /\ IdleCacheVars
    /\ IdleLimVars
    /\ IdleColVars
    /\ NewWeatherStore
    /\ NewForecastStore
    /\ uconfig = MainConfig
    /\ ucycle = 0
    /\ urunning = FALSE
    /\ ures = [g \in Writers \cup FClients |-> "none"]
    /\ life = [NoLife EXCEPT !.main = "waiting", !.updater = "running"]

NextMain ==
    \/ LifeTick
    \/ UpdaterCallsUpdateData
    \/ UpdaterJobStep
    \/ UpdaterCycleEnds
    \/ UpdaterReturns
    \/ ShutdownSignal
    \/ CloseUpdateChan
    \/ StartPruner
    \/ MainReturns
    \/ PrunerCallsPrune
    \/ PrunerPruneStep
    \/ PrunerReturns

SpecMain == InitMain /\ [][NextMain]_vars

(***************************************************************************)
(* Claims about main (checked under SpecMain).                             *)
(***************************************************************************)

\* C31, as stated: when the service has run for longer than the pruning
\* interval before the shutdown signal, PruneOldForecasts has been called at
\* least once by the time the process has shut down.
C31_PrunedBeforeShutdown ==
    (life.main = "exited" /\ life.signalAt > PruneInterval) => life.prunes >= 1

\* What main does instead: PruneOldForecasts is never called before the
\* shutdown signal has arrived and updateChan has been closed.
C31_NoPruneWhileRunning ==
    life.main \in {"waiting", "signalled", "closed"} => life.prunes = 0 /\ life.pruner = "none"

\* The failing run of C31: the signal arrives after more than one pruning
\* interval, the process has ended, and the store was never pruned although
\* it holds a forecast older than forecastPruneAge.
C31_Witness ==
    /\ life.main = "exited"
    /\ life.signalAt > PruneInterval
    /\ life.prunes = 0
    /\ life.pruner = "exited"
    /\ \E key \in DOMAIN fhist.last : now - fhist.last[key].Updated > ForecastPruneAge

(***************************************************************************)
(* Caching decorator                                                       *)
(***************************************************************************)

\* Variant of CacheKey that leaves the day count out of the key.
CacheKeyLocationOnly(location, days) == location

\* cacheKey := fmt.Sprintf("%s:%d", location, days)
CacheKey(location, days) == location \o ":" \o ToString(days)

\* The map key a request is looked up and stored under.
KeyOf(req) ==
    IF req.kind = "forecast" THEN CacheKey(req.location, req.days) ELSE req.location

WeatherRequests == {[kind |-> "weather", location |-> l, days |-> 0] : l \in Locations}
ForecastRequests ==
    {[kind |-> "forecast", location |-> l, days |-> d] : l \in Locations, d \in DaysSet}

\* Variant of Fresh whose window is one unit short.
FreshShortWindow(timestamp, t, d) == t - timestamp < d - 1

\* Variant of Fresh that still accepts an entry whose age equals the window.
FreshInclusive(timestamp, t, d) == t - timestamp <= d

\* time.Since(entry.Timestamp) < c.cacheDuration
Fresh(timestamp, t, d) == t - timestamp < d

\* The other components are not touched by the caching decorator.
CacheFrame == UNCHANGED <<limVars, colVars, storeVars, forecastVars, updVars>>

\* NewCachedDataSource / NewCachedForecastSource
InitCacheVars ==
    /\ kind \in {"weather", "forecast"}
    /\ cacheDuration \in 0..MaxDuration
    /\ cache = <<>>
    /\ cacheHitCount = 0
    /\ cacheMissCount = 0
    /\ sourceCalls = 0
    /\ cpc = [p \in Callers |-> "idle"]
    /\ creq = [p \in Callers |-> [kind |-> "none"]]
    /\ centry = [p \in Callers |-> NoEntry]
    /\ cres = [p \in Callers |-> NoResult]
    /\ chist = [p \in Callers |-> NoHist]
    /\ cstores = {}
    /\ nCalls = 0
    /\ cdecided = [hit |-> 0, miss |-> 0]
    /\ cmutex = [writer |-> {}, readers |-> {}]

\* c.mutex.Lock() returns for p: no goroutine holds c.mutex in either mode
CacheCanLock(p) == cmutex.writer = {} /\ cmutex.readers = {}

\* c.mutex.RLock() returns for p: no goroutine holds the write lock
CacheCanRLock(p) == cmutex.writer = {}

\* c.mutex.Unlock() / c.mutex.RUnlock() by p
CacheUnlocked(p) == [writer |-> cmutex.writer \ {p}, readers |-> cmutex.readers \ {p}]

\* A call enters FetchWeatherData / FetchForecast: c.mutex.RLock() returns.
\* The calls of a behaviour are counted when they enter.
CacheRLock(p) ==
    /\ cpc[p] \in {"idle", "done"}
    /\ p \notin cmutex.readers
    /\ nCalls + Cardinality(cmutex.readers) < MaxCalls
    /\ CacheCanRLock(p)
    /\ cmutex' = [cmutex EXCEPT !.readers = @ \cup {p}]
    /\ UNCHANGED <<now, kind, cacheDuration, cache, cacheHitCount, cacheMissCount,
                   sourceCalls, cpc, creq, centry, cres, chist, cstores, nCalls, cdecided>>
    /\ CacheFrame

\* c.mutex.Lock() returns for a caller that is about to count its hit or its
\* miss, or whose source call has returned data that it is about to store.
CacheLock(p) ==
    /\ cpc[p] \in {"hit", "miss", "upstream"}
    /\ p \notin cmutex.writer
    /\ CacheCanLock(p)
    /\ cmutex' = [cmutex EXCEPT !.writer = {p}]
    /\ UNCHANGED <<now, kind, cacheDuration, cache, cacheHitCount, cacheMissCount,
                   sourceCalls, cpc, creq, centry, cres, chist, cstores, nCalls, cdecided>>
    /\ CacheFrame

\* The read lock section of p, from the point p has reached in RLock to RUnlock.
InRLock(p) ==
    /\ \/ p \in cmutex.readers
       \/ CacheCanRLock(p) /\ nCalls + Cardinality(cmutex.readers) < MaxCalls
    /\ cmutex' = CacheUnlocked(p)

\* The write lock section of p, from the point p has reached in Lock to Unlock.
InLock(p) ==
    /\ p \in cmutex.writer \/ CacheCanLock(p)
    /\ cmutex' = CacheUnlocked(p)

\* c.mutex.RLock(); entry, found := c.cache[key]; c.mutex.RUnlock()
Lookup(p, req) ==
    /\ cpc[p] \in {"idle", "done"}
    /\ nCalls < MaxCalls
    /\ InRLock(p)
    /\ nCalls' = nCalls + 1
    /\ creq' = [creq EXCEPT ![p] = req]
    /\ centry' = [centry EXCEPT ![p] =
            IF KeyOf(req) \in DOMAIN cache
            THEN [found |-> TRUE, Data |-> cache[KeyOf(req)].Data,
                  Timestamp |-> cache[KeyOf(req)].Timestamp]
            ELSE NoEntry]
    /\ cres' = [cres EXCEPT ![p] = NoResult]
    /\ chist' = [chist EXCEPT ![p] =
            [NoHist EXCEPT !.pre = {s \in cstores : s.key = KeyOf(req)}]]
    /\ cpc' = [cpc EXCEPT ![p] = "check"]
    /\ UNCHANGED <<now, kind, cacheDuration, cache, cacheHitCount, cacheMissCount,
                   sourceCalls, cstores, cdecided>>
    /\ CacheFrame

\* CachedDataSource.FetchWeatherData: entry and lookup
FetchWeatherData(p) ==
    /\ kind = "weather"
    /\ \E req \in WeatherRequests : Lookup(p, req)

\* CachedForecastSource.FetchForecast: entry, cache key and lookup
FetchForecast(p) ==
    /\ kind = "forecast"
    /\ \E req \in ForecastRequests : Lookup(p, req)

\* if found && time.Since(entry.Timestamp) < c.cacheDuration { ... }
CheckFresh(p) ==
    /\ cpc[p] = "check"
    /\ LET branch == IF centry[p].found /\ Fresh(centry[p].Timestamp, now, cacheDuration)
                     THEN "hit" ELSE "miss"
       IN /\ cpc' = [cpc EXCEPT ![p] = branch]
          /\ cdecided' = [cdecided EXCEPT ![branch] = @ + 1]
    /\ chist' = [chist EXCEPT ![p].checkT = now]
    /\ UNCHANGED <<now, kind, cacheDuration, cache, cacheHitCount, cacheMissCount,
                   sourceCalls, creq, centry, cres, cstores, nCalls, cmutex>>
    /\ CacheFrame

\* Variant of CacheHit that goes on to refresh the entry from the wrapped source.
CacheHitRefreshes(p) ==
    /\ cpc[p] = "hit"
    /\ InLock(p)
    /\ cacheHitCount' = cacheHitCount + 1
    /\ sourceCalls' = sourceCalls + 1
    /\ chist' = [chist EXCEPT ![p].class = "hit", ![p].call = sourceCalls + 1]
    /\ cpc' = [cpc EXCEPT ![p] = "upstream"]
    /\ UNCHANGED <<now, kind, cacheDuration, cache, cacheMissCount,
                   creq, centry, cres, cstores, nCalls, cdecided>>
    /\ CacheFrame

\* Variant of CacheHit that counts the hit on the miss counter.
CacheHitCountsMiss(p) ==
    /\ cpc[p] = "hit"
    /\ InLock(p)
    /\ cacheMissCount' = cacheMissCount + 1
    /\ chist' = [chist EXCEPT ![p].class = "hit"]
    /\ cres' = [cres EXCEPT ![p] = [ret |-> "ok", Data |-> centry[p].Data]]
    /\ cpc' = [cpc EXCEPT ![p] = "done"]
    /\ UNCHANGED <<now, kind, cacheDuration, cache, cacheHitCount, sourceCalls,
                   creq, centry, cstores, nCalls, cdecided>>
    /\ CacheFrame

\* c.mutex.Lock(); c.cacheHitCount++; c.mutex.Unlock(); return entry.Data, nil
CacheHit(p) ==
    /\ cpc[p] = "hit"
    /\ InLock(p)
    /\ cacheHitCount' = cacheHitCount + 1
    /\ chist' = [chist EXCEPT ![p].class = "hit"]
    /\ cres' = [cres EXCEPT ![p] = [ret |-> "ok", Data |-> centry[p].Data]]
    /\ cpc' = [cpc EXCEPT ![p] = "done"]
    /\ UNCHANGED <<now, kind, cacheDuration, cache, cacheMissCount, sourceCalls,
                   creq, centry, cstores, nCalls, cdecided>>
    /\ CacheFrame

\* Variant of CacheMiss that calls the wrapped source before c.mutex.Unlock().
CacheMissKeepsLock(p) ==
    /\ cpc[p] = "miss"
    /\ p \in cmutex.writer \/ CacheCanLock(p)
    /\ cmutex' = [cmutex EXCEPT !.writer = {p}]
    /\ cacheMissCount' = cacheMissCount + 1
    /\ sourceCalls' = sourceCalls + 1
    /\ chist' = [chist EXCEPT ![p].class = "miss", ![p].invoked = @ + 1,
                              ![p].call = sourceCalls + 1]
    /\ cpc' = [cpc EXCEPT ![p] = "upstream"]
    /\ UNCHANGED <<now, kind, cacheDuration, cache, cacheHitCount,
                   creq, centry, cres, cstores, nCalls, cdecided>>
    /\ CacheFrame

\* c.mutex.Lock(); c.cacheMissCount++; c.mutex.Unlock()
\* data, err := c.source.FetchWeatherData(ctx, location): the call is issued
CacheMiss(p) ==
    /\ cpc[p] = "miss"
    /\ InLock(p)
    /\ cacheMissCount' = cacheMissCount + 1
    /\ sourceCalls' = sourceCalls + 1
    /\ chist' = [chist EXCEPT ![p].class = "miss", ![p].invoked = @ + 1,
                              ![p].call = sourceCalls + 1]
    /\ cpc' = [cpc EXCEPT ![p] = "upstream"]
    /\ UNCHANGED <<now, kind, cacheDuration, cache, cacheHitCount,
                   creq, centry, cres, cstores, nCalls, cdecided>>
    /\ CacheFrame

\* Variant of SourceReturnsError that caches the zero value it returns.
SourceReturnsErrorCachesZero(p) ==
    /\ cpc[p] = "upstream"
    /\ InLock(p)
    /\ cache' = MapPut(cache, KeyOf(creq[p]), [Data |-> [req |-> creq[p], call |-> 0],
                                               Timestamp |-> now])
    /\ cres' = [cres EXCEPT ![p] = [ret |-> "err", call |-> chist[p].call]]
    /\ cpc' = [cpc EXCEPT ![p] = "done"]
    /\ UNCHANGED <<now, kind, cacheDuration, cacheHitCount, cacheMissCount,
                   sourceCalls, creq, centry, chist, cstores, nCalls, cdecided>>
    /\ CacheFrame

\* the wrapped source fails: if err != nil { return models.WeatherData{}, err }
SourceReturnsError(p) ==
    /\ cpc[p] = "upstream"
    /\ p \notin cmutex.writer
    /\ cres' = [cres EXCEPT ![p] = [ret |-> "err", call |-> chist[p].call]]
    /\ cpc' = [cpc EXCEPT ![p] = "done"]
    /\ UNCHANGED <<now, kind, cacheDuration, cache, cacheHitCount, cacheMissCount,
                   sourceCalls, creq, centry, chist, cstores, nCalls, cdecided, cmutex>>
    /\ CacheFrame

\* Variant of CacheStore that files the data under the location alone.
CacheStoreUnderLocation(p) ==
    /\ cpc[p] = "upstream"
    /\ InLock(p)
    /\ LET fetched == [req |-> creq[p], call |-> chist[p].call]
           key == creq[p].location
       IN /\ cache' = MapPut(cache, key, [Data |-> fetched, Timestamp |-> now])
          /\ cstores' = cstores \cup {[key |-> key, Data |-> fetched, Timestamp |-> now]}
          /\ cres' = [cres EXCEPT ![p] = [ret |-> "ok", Data |-> fetched]]
    /\ cpc' = [cpc EXCEPT ![p] = "done"]
    /\ UNCHANGED <<now, kind, cacheDuration, cacheHitCount, cacheMissCount,
                   sourceCalls, creq, centry, chist, nCalls, cdecided>>
    /\ CacheFrame

\* the wrapped source returns data:
\* c.mutex.Lock(); c.cache[key] = cacheEntry{data, time.Now()}; c.mutex.Unlock(); return data, nil
CacheStore(p) ==
    /\ cpc[p] = "upstream"
    /\ InLock(p)
    /\ LET fetched == [req |-> creq[p], call |-> chist[p].call]
           key == KeyOf(creq[p])
       IN /\ cache' = MapPut(cache, key, [Data |-> fetched, Timestamp |-> now])
          /\ cstores' = cstores \cup {[key |-> key, Data |-> fetched, Timestamp |-> now]}
          /\ cres' = [cres EXCEPT ![p] = [ret |-> "ok", Data |-> fetched]]
    /\ cpc' = [cpc EXCEPT ![p] = "done"]
    /\ UNCHANGED <<now, kind, cacheDuration, cacheHitCount, cacheMissCount,
                   sourceCalls, creq, centry, chist, nCalls, cdecided>>
    /\ CacheFrame

\* CacheStats(): c.mutex.RLock(); return c.cacheHitCount, c.cacheMissCount
CacheStats == [hits |-> cacheHitCount, misses |-> cacheMissCount]

\* the clock advances while the decorator is in use
CacheTick ==
    /\ now < MaxTime
    /\ now' = now + 1
    /\ UNCHANGED cacheVars
    /\ CacheFrame

InitCache ==
    /\ now = 0
    /\ InitCacheVars
    /\ IdleLimVars
    /\ IdleColVars
    /\ NewWeatherStore
    /\ NewForecastStore
    /\ IdleUpdVars

NextCache ==
    \/ \E p \in Callers : FetchWeatherData(p)
    \/ \E p \in Callers : FetchForecast(p)
    \/ \E p \in Callers : CheckFresh(p)
    \/ \E p \in Callers : CacheHit(p)
    \/ \E p \in Callers : CacheMiss(p)
    \/ \E p \in Callers : SourceReturnsError(p)
    \/ \E p \in Callers : CacheStore(p)
    \/ CacheTick

SpecCache == InitCache /\ [][NextCache]_vars

\* The decorator with the acquisition of c.mutex as a step of its own, so
\* that a caller can be seen waiting for the lock and holding it.  The clock
\* stands still: an entry stored during the behaviour is fresh when
\* cacheDuration > 0 and expired when cacheDuration = 0.
NextCacheLocks ==
    \/ \E p \in Callers : CacheRLock(p)
    \/ \E p \in Callers : CacheLock(p)
    \/ \E p \in Callers : FetchWeatherData(p)
    \/ \E p \in Callers : FetchForecast(p)
    \/ \E p \in Callers : CheckFresh(p)
    \/ \E p \in Callers : CacheHit(p)
    \/ \E p \in Callers : CacheMiss(p)
    \/ \E p \in Callers : SourceReturnsError(p)
    \/ \E p \in Callers : CacheStore(p)

SpecCacheLocks == InitCache /\ [][NextCacheLocks]_vars

(***************************************************************************)
(* Claims about the caching decorator (checked under SpecCache).           *)
(* chist[p].pre holds the stores made for the key of p's call before the   *)
(* call started; chist[p].checkT is the instant at which the call          *)
(* evaluated time.Since, i.e. the time t1 the call reads the clock.        *)
(***************************************************************************)

\* C1: if a result was stored for a key at time t0 and a later call for the
\* same key reads the clock at t1 with t1 - t0 < cacheDuration, the call takes
\* the hit branch, never invokes the wrapped source, and returns a value that
\* was stored for that key (no older than the store at t0).
C1_HitWithinWindow ==
    \A p \in Callers : \A s \in chist[p].pre :
        (chist[p].checkT >= 0 /\ chist[p].checkT - s.Timestamp < cacheDuration) =>
            /\ cpc[p] \in {"hit", "done"}
            /\ chist[p].invoked = 0
            /\ cpc[p] = "done" =>
                  /\ chist[p].class = "hit"
                  /\ cres[p].ret = "ok"
                  /\ \E s2 \in chist[p].pre :
                        /\ s2.Data = cres[p].Data
                        /\ s2.Timestamp >= s.Timestamp

\* C1 witness: a completed call answered as a hit one unit before the entry expires.
C1_Witness ==
    \E p \in Callers : \E s \in chist[p].pre :
        /\ cpc[p] = "done"
        /\ chist[p].class = "hit"
        /\ cacheDuration >= 2
        /\ chist[p].checkT - s.Timestamp = cacheDuration - 1

\* C2: a call that finds an entry whose age is >= cacheDuration never takes the
\* hit branch: it is counted as a miss and invokes the wrapped source exactly
\* once.
C2_ExpiredIsMiss ==
    \A p \in Callers :
        (/\ chist[p].checkT >= 0
         /\ centry[p].found
         /\ chist[p].checkT - centry[p].Timestamp >= cacheDuration) =>
            /\ cpc[p] \in {"miss", "upstream", "done"}
            /\ chist[p].class # "hit"
            /\ cpc[p] = "miss" => chist[p].invoked = 0
            /\ cpc[p] \in {"upstream", "done"} =>
                  chist[p].class = "miss" /\ chist[p].invoked = 1

\* C2 witness: a completed call that found an entry exactly cacheDuration old,
\* was counted as a miss and invoked the source once.
C2_Witness ==
    \E p \in Callers :
        /\ cpc[p] = "done"
        /\ centry[p].found
        /\ cacheDuration >= 1
        /\ chist[p].checkT - centry[p].Timestamp = cacheDuration
        /\ chist[p].class = "miss"
        /\ chist[p].invoked = 1

C15_FailureNotCached ==
    /\ [](/\ \A p \in Callers :
                (cpc[p] = "done" /\ cres[p].ret = "err") =>
                    /\ chist[p].class = "miss"
                    /\ cres[p].call = chist[p].call
          /\ \A key \in DOMAIN cache :
                [key |-> key, Data |-> cache[key].Data, Timestamp |-> cache[key].Timestamp]
                    \in cstores)
    /\ [][\A p \in Callers :
            (cpc'[p] # cpc[p] /\ cache' # cache) =>
                (cpc'[p] = "done" /\ cres'[p].ret = "ok")]_vars

\* C15 witness: a call failed on a miss, the key is still absent from the
\* map, and the next call for that key was a miss again.
C15_Witness ==
    \E p, q \in Callers :
        /\ p # q
        /\ cpc[p] = "done" /\ cres[p].ret = "err"
        /\ creq[q] = creq[p]
        /\ chist[q].call = chist[p].call + 1
        /\ chist[q].class = "miss"
        /\ KeyOf(creq[p]) \notin DOMAIN cache

\* The stores made before p's call started for exactly the location and the
\* day count p asks for.
StoredForRequest(p) ==
    {s \in chist[p].pre : /\ s.Data.req.location = creq[p].location
                          /\ s.Data.req.days = creq[p].days}

\* C21: in the forecast decorator an entry is used only for the location and
\* the day count it was stored for: the entry a call finds, and the value a
\* hit returns, were fetched for the call's own (location, days), and a call
\* for which nothing was stored under its own (location, days) is a miss
\* that invokes the wrapped source once, whatever is stored for the same
\* location with another day count.
C21_KeyIsLocationAndDays ==
    kind = "forecast" =>
        \A p \in Callers :
            /\ centry[p].found => centry[p].Data.req = creq[p]
            /\ (cpc[p] = "done" /\ chist[p].class = "hit") => cres[p].Data.req = creq[p]
            /\ (chist[p].checkT >= 0 /\ StoredForRequest(p) = {}) =>
                  /\ cpc[p] \in {"miss", "upstream", "done"}
                  /\ chist[p].class # "hit"
                  /\ cpc[p] \in {"upstream", "done"} => chist[p].invoked = 1

\* C21 witness: an entry for (location, d1) is in the cache and fresh, and a
\* later call for the same location with another day count was a miss, so
\* that the cache holds one entry per day count.
C21_Witness ==
    \E p, q \in Callers :
        /\ kind = "forecast"
        /\ cpc[p] = "done" /\ cpc[q] = "done"
        /\ creq[p].location = creq[q].location
        /\ creq[p].days # creq[q].days
        /\ chist[p].call = 1 /\ chist[q].call = 2
        /\ chist[q].class = "miss"
        /\ cres[p].ret = "ok" /\ cres[q].ret = "ok"
        /\ chist[q].checkT > cache[KeyOf(creq[p])].Timestamp
        /\ Fresh(cache[KeyOf(creq[p])].Timestamp, chist[q].checkT, cacheDuration)
        /\ Cardinality(DOMAIN cache) = 2

\* C36, as stated: under concurrent misses on one key the value stored for
\* the key is never replaced by the result of a source call that started
\* earlier than the call that produced the stored value.
C36_OlderFetchNeverOverwrites ==
    [][\A key \in DOMAIN cache \cap DOMAIN cache' :
          cache'[key].Data.call >= cache[key].Data.call]_vars

\* What the decorator guarantees instead: the map holds, for a key, the data
\* of the store executed last for that key, whichever source call it came from.
C36_LastStoreWins ==
    [][\A p \in Callers :
          (cpc[p] = "upstream" /\ cpc'[p] = "done" /\ cres'[p].ret = "ok") =>
              cache'[KeyOf(creq[p])].Data.call = chist[p].call]_vars

\* The failing run of C36: two callers missed on the same key, the source
\* call that started second was stored first, and the map now holds the
\* result of the call that started first.
C36_Witness ==
    \E p, q \in Callers :
        /\ cpc[p] = "done" /\ cpc[q] = "done"
        /\ creq[p] = creq[q]
        /\ cres[p].ret = "ok" /\ cres[q].ret = "ok"
        /\ chist[p].call = 1 /\ chist[q].call = 2
        /\ cache[KeyOf(creq[p])].Data.call = 1
        /\ \E s \in cstores : s.key = KeyOf(creq[p]) /\ s.Data.call = 2

\* C37: every entry of the cache map, and every value a hit returns, is the
\* data a source call returned without error for exactly the key it is held
\* or asked under (the location and, for forecasts, the day count), and once
\* no call is in flight the miss counter equals the number of calls made to
\* the wrapped source, the failed ones included.
C37_CacheHoldsSourceResults ==
    /\ \A key \in DOMAIN cache :
          /\ KeyOf(cache[key].Data.req) = key
          /\ cache[key].Data.call \in 1..sourceCalls
          /\ \E s \in cstores : s.key = key /\ s.Data = cache[key].Data
          /\ \A p \in Callers : cres[p].ret = "err" => cres[p].call # cache[key].Data.call
    /\ \A p \in Callers :
          (cpc[p] = "done" /\ chist[p].class = "hit") =>
              /\ cres[p].ret = "ok"
              /\ KeyOf(cres[p].Data.req) = KeyOf(creq[p])
              /\ cres[p].Data.call \in 1..sourceCalls
              /\ \E s \in cstores : s.key = KeyOf(creq[p]) /\ s.Data = cres[p].Data
    /\ (\A p \in Callers : cpc[p] \in {"idle", "done"}) => CacheStats.misses = sourceCalls

\* C37 witness: no call is in flight; a forecast call was answered by a hit
\* with the data an earlier call stored for the same location and day count.
C37_Witness ==
    /\ kind = "forecast"
    /\ \A p \in Callers : cpc[p] \in {"idle", "done"}
    /\ CacheStats.misses = 1
    /\ sourceCalls = 1
    /\ \E p \in Callers :
          /\ cpc[p] = "done"
          /\ chist[p].class = "hit"
          /\ cres[p].Data = cache[KeyOf(creq[p])].Data

\* Caller p holds c.mutex, in either mode.
HoldsCacheMutex(p) == p \in cmutex.writer \/ p \in cmutex.readers

\* A step caller p can take inside its call.
CallerStep(p) ==
    \/ FetchWeatherData(p)
    \/ FetchForecast(p)
    \/ CheckFresh(p)
    \/ CacheLock(p)
    \/ CacheHit(p)
    \/ CacheMiss(p)
    \/ SourceReturnsError(p)
    \/ CacheStore(p)

\* C27: a caller whose call of the wrapped source is outstanding holds
\* c.mutex in neither mode; a caller acquires c.mutex only while it holds it
\* in no mode (no nesting), and at most one caller holds the write lock, and
\* then nobody holds the read lock; a caller that holds the lock can always
\* take its next step, and a caller inside a call that cannot take a step is
\* waiting for a holder that can (no deadlock); every caller classified as a
\* miss invokes the wrapped source itself, whatever the other callers do.
C27_SourceCalledUnlocked ==
    /\ [](/\ Cardinality(cmutex.writer) <= 1
          /\ cmutex.writer # {} => cmutex.readers = {}
          /\ \A p \in Callers :
                /\ HoldsCacheMutex(p) => ENABLED CallerStep(p)
                /\ (cpc[p] \notin {"idle", "done"} /\ ~ENABLED CallerStep(p)) =>
                     \E q \in Callers \ {p} : HoldsCacheMutex(q) /\ ENABLED CallerStep(q))
    /\ [][\A p \in Callers :
            /\ (cpc'[p] = "upstream" /\ cpc[p] # "upstream") =>
                 (p \notin cmutex'.writer /\ p \notin cmutex'.readers)
            /\ (p \in cmutex'.writer /\ p \notin cmutex.writer) => ~HoldsCacheMutex(p)
            /\ (p \in cmutex'.readers /\ p \notin cmutex.readers) => ~HoldsCacheMutex(p)
            /\ (cpc[p] = "miss" /\ cpc'[p] # "miss") =>
                 /\ cpc'[p] = "upstream"
                 /\ sourceCalls' = sourceCalls + 1
                 /\ chist'[p].invoked = 1]_vars

\* C27 witness: two callers for the same key were both classified as misses
\* and both calls of the wrapped source are outstanding at the same time,
\* while nobody holds c.mutex.
C27_Witness ==
    \E p, q \in Callers :
        /\ p # q
        /\ creq[p] = creq[q]
        /\ cpc[p] = "upstream" /\ cpc[q] = "upstream"
        /\ chist[p].class = "miss" /\ chist[q].class = "miss"
        /\ chist[p].invoked = 1 /\ chist[q].invoked = 1
        /\ sourceCalls = 2
        /\ cacheMissCount = 2
        /\ cmutex = [writer |-> {}, readers |-> {}]

(***************************************************************************)
(* CachedForecastSource over RateLimitedForecastSource                     *)
(*                                                                         *)
(* The wrapped source of the caching decorator is the rate-limited         *)
(* forecast source: the source call of a miss is the FetchForecast of the  *)
(* rate limiter, made by the same goroutine with the location and the day  *)
(* count of its request, and what that call returns is what the decorator  *)
(* stores or hands back as the error.  The steps are those of the two      *)
(* decorators above.  Every goroutine makes one call.                      *)
(***************************************************************************)

\* FetchForecast of the caching decorator is called by goroutine p, for one
\* location and any of the day counts
CachedFetchForecast(p) ==
    /\ cpc[p] = "idle"
    /\ FetchForecast(p)
    /\ creq'[p].location = "London,UK"

\* data, err := c.source.FetchForecast(ctx, location, days), the source being
\* the rate-limited forecast source
CallLimitedSource(p) ==
    /\ cpc[p] = "upstream"
    /\ lpc[p] = "idle"
    /\ LimitedFetchForecast(p, creq[p].location, creq[p].days)

\* the source call returned an error: if err != nil { return ..., err }
LimitedSourceFails(p) ==
    /\ lpc[p] = "done"
    /\ lres[p].ret = "err"
    /\ SourceReturnsError(p)

\* the source call returned data, which is stored and returned
LimitedSourceReturns(p) ==
    /\ lpc[p] = "done"
    /\ lres[p].ret = "ok"
    /\ CacheStore(p)

\* NewCachedForecastSource(NewRateLimitedForecastSource(source, rps, burst), cacheDuration),
\* with an entry expiring at once or after one unit of the clock
InitCachedLimited ==
    /\ now = 0
    /\ InitCacheVars
    /\ kind = "forecast"
    /\ cacheDuration \in {0, 1}
    /\ InitLimVars
    /\ limPeriod["weatherLimiter"] = limPeriod["forecastLimiter"]
    /\ IdleColVars
    /\ NewWeatherStore
    /\ NewForecastStore
    /\ IdleUpdVars

NextCachedLimited ==
    \/ \E p \in Entering(Callers, cpc) : CachedFetchForecast(p)
    \/ \E p \in Callers : CheckFresh(p)
    \/ \E p \in Callers : CacheHit(p)
    \/ \E p \in Callers : CacheMiss(p)
    \/ \E p \in Callers : CallLimitedSource(p)
    \/ \E p \in Callers : WaitTimerFires(p)
    \/ \E p \in Callers : WaitCtxDone(p)
    \/ \E p \in Callers : CancelCtx(p)
    \/ \E p \in Callers : ProviderReturns(p)
    \/ \E p \in Callers : LimitedSourceFails(p)
    \/ \E p \in Callers : LimitedSourceReturns(p)
    \/ LimTick

SpecCachedLimited == InitCachedLimited /\ [][NextCachedLimited]_vars

(***************************************************************************)
(* Claims about the composition (checked under SpecCachedLimited).         *)
(***************************************************************************)

\* The call of goroutine p has not touched the rate limiter.
OutsideLimiter(p) == lpc[p] = "idle" /\ lcall[p] = NoCall /\ lhist[p] = NoLimHist

\* C38: a call the caching decorator answers as a hit never enters the rate
\* limiter: it reserves no token and does not wait.  The limiter is entered
\* only by a call classified as a miss, once per miss and after the miss was
\* counted; a bucket changes only in a step of such a call, and the
\* reservation of a miss takes exactly one token from the forecast bucket.
\* Once no call is in flight the limiter has been entered as often as misses
\* were counted.
C38_HitsBypassLimiter ==
    /\ [](/\ \A p \in Callers :
                (cpc[p] \in {"idle", "check", "hit", "miss"} \/ chist[p].class = "hit") =>
                    OutsideLimiter(p)
          /\ lCalls <= CacheStats.misses
          /\ lim["weatherLimiter"] = NewLimiter(limBurst, limPeriod["weatherLimiter"])
          /\ (\A p \in Callers : cpc[p] \in {"idle", "done"}) => lCalls = CacheStats.misses)
    /\ [][/\ lCalls' # lCalls =>
               /\ lCalls' = lCalls + 1
               /\ \E p \in Callers : /\ cpc[p] = "upstream"
                                     /\ chist[p].class = "miss"
                                     /\ OutsideLimiter(p)
                                     /\ ~OutsideLimiter(p)'
                                     /\ lim' # lim =>
                                          lim'["forecastLimiter"].tokens =
                                             Advance("forecastLimiter", now)
                                                - limPeriod["forecastLimiter"]
          /\ lim' # lim =>
               \E p \in Callers : /\ chist[p].class = "miss"
                                  /\ cpc[p] = "upstream"
                                  /\ lpc'[p] # lpc[p]]_vars

\* C38 witness: one goroutine's miss has used up the forecast bucket, and the
\* other goroutine's call for the same key was answered as a hit while the
\* bucket was exhausted, without touching the limiter.
C38_Witness ==
    \E p, q \in Callers :
        /\ cpc[p] = "done" /\ chist[p].class = "miss" /\ cres[p].ret = "ok"
        /\ cpc[q] = "done" /\ chist[q].class = "hit"
        /\ creq[p] = creq[q]
        /\ OutsideLimiter(q)
        /\ Exhausted("forecastLimiter")
        /\ lCalls = 1
        /\ CacheStats = [hits |-> 1, misses |-> 1]

====
